---- MODULE Spec2Model ----
(***************************************************************************)
(* A model of the XShaderCompiler driver:                                  *)
(*   - Compiler::CompileShader / ValidateArguments / CompileShaderPrimary  *)
(*     (src/src/Compiler/Compiler.cpp),                                    *)
(*   - HLSLGenerator::GenerateCodePrimary                                  *)
(*     (src/src/Compiler/Backend/HLSL/HLSLGenerator.cpp),                  *)
(*   - Shell::Compile (src/unnamed/part_001).                              *)
(* Every behaviour is one call of one of these entry points; Init draws    *)
(* the call and its arguments.  The stages whose code is outside the       *)
(* modelled files (pre-processor, parser, analyzer, GLSL generator, ...)   *)
(* are calls with a nondeterministic result.                               *)
(***************************************************************************)
EXTENDS Integers, Sequences, FiniteSets, TLC

VARIABLES
    pc,               \* position of the Compiler::CompileShader call
    inputDesc,        \* const ShaderInput&  (caller's descriptor)
    outputDesc,       \* const ShaderOutput& (caller's descriptor)
    log_,             \* Compiler::log_ is non-null
    reflectionData,   \* Reflection::ReflectionData* argument and its content
    outputDescCopy,   \* local copy of the output descriptor (Compiler.cpp:50)
    processedInput,   \* result of PreProcessor::Process (null or a stream)
    generatorResult,  \* local of CompileShaderPrimary
    sink,             \* bytes in the caller's output stream
    dummyOutputStream,\* bytes in the local std::stringstream (Compiler.cpp:48)
    reports,          \* reports submitted to the log (by the compiler and its stages), in order
    trace,            \* stages run so far, in order, with their result
    result,           \* return value of CompileShader: "true" or "false" ("none" until it returns)
    exception,        \* message of the exception that left the call, or "none"
    gpc,              \* position of the HLSLGenerator::GenerateCodePrimary call
    program,          \* the Program handed to the generator
    genDesc,          \* the descriptors handed to the generator
    genEvents,        \* the calls the generator made, in order
    genOut,           \* lines the generator wrote to the output
    genErrors,        \* messages passed to Generator::Error
    genWarnings,      \* messages passed to Generator::Warning
    literal,          \* a HLSLGenerator::WriteLiteral call: its arguments and the text written
    procCall,         \* a call of one other procedure of the generator: arguments and effect
    spc,              \* position of the Shell::Compile call
    state_,           \* Shell::state_
    env,              \* file system and compiler outcome seen by Shell::Compile
    lastOutputFilename_, \* Shell::lastOutputFilename_
    files,            \* output files written by the shell: name -> content
    output,           \* lines printed to Shell::output
    epc,              \* position of the Shell::ExecuteCommandLine call
    cmdLine,          \* CommandLine: the arguments not yet accepted
    enableBriefHelp,  \* argument of Shell::ExecuteCommandLine
    cmdResult,        \* return value of ExecuteCommandLine ("none" until it returns)
    opc,              \* which part of the Shell's object interface a caller is using
    stateStack_,      \* Shell::stateStack_, the top of the stack last
    calls,            \* the PushState, PopState and command calls made, in order
    instance_,        \* Shell::instance_
    shells            \* the Shell objects that are alive

compilerVars == <<pc, inputDesc, outputDesc, log_, reflectionData, outputDescCopy,
                  processedInput, generatorResult, sink, dummyOutputStream,
                  reports, trace, result, exception>>
generatorVars == <<gpc, program, genDesc, genEvents, genOut, genErrors, genWarnings,
                   literal, procCall>>
commandLineVars == <<epc, cmdLine, enableBriefHelp, cmdResult>>
objectVars == <<opc, stateStack_, calls, instance_, shells>>
shellVars == <<spc, state_, env, lastOutputFilename_, files, output, commandLineVars,
               objectVars>>
vars == <<compilerVars, generatorVars, shellVars>>

----------------------------------------------------------------------------
(* Bounds *)

MaxPrefixLen == 4     \* longest name-mangling prefix
MaxStreamLen == 2     \* longest stream (pre-processed input, generated text)
MaxDiagnostics == 2   \* most reports a failing stage submits to the log
MaxArgs == 3          \* most arguments on a command line
MaxStmnts == 3        \* most global statements of a program
MaxRefs == 3          \* most references between the declarations of a program
MaxCalls == 5         \* most PushState, PopState and command calls on one Shell
MaxTextLen == 3       \* most characters of a comment text
SizeBits == 5         \* bits of std::size_t
UIntBits == 4         \* bits of unsigned int, at most SizeBits
MaxCallArgs == 2      \* most explicit and most default arguments of a call

(* Strings are sequences of characters. *)
Str(c, n) == [i \in 1..n |-> c]
Prefixes == {Str("x", n) : n \in 0..MaxPrefixLen}
Streams  == {Str("c", n) : n \in 0..MaxStreamLen}

----------------------------------------------------------------------------
(* Shader versions (include/Xsc/Targets.h is not among the sources; the    *)
(* language predicates follow the version names the specification lists).  *)

InputShaderVersions  == {"HLSL5", "GLSL"}
(* Every enumerator of InputShaderVersion. *)
InputShaderVersionEnum ==
    {"Cg", "HLSL3", "HLSL4", "HLSL5", "HLSL6", "GLSL", "ESSL", "VKSL"}
OutputShaderVersions == {"GLSL", "ESSL", "VKSL", "HLSL"}

IsLanguageHLSL(shaderVersion) == shaderVersion \in {"Cg", "HLSL3", "HLSL4", "HLSL5", "HLSL6"}
IsLanguageGLSL(shaderVersion) == shaderVersion \in {"GLSL", "ESSL", "VKSL"}
IsOutputGLSL(shaderVersion) == shaderVersion = "GLSL"
IsOutputESSL(shaderVersion) == shaderVersion = "ESSL"
IsOutputVKSL(shaderVersion) == shaderVersion = "VKSL"

ShaderTargets == {"Undefined", "VertexShader", "TessellationControlShader",
                  "TessellationEvaluationShader", "GeometryShader",
                  "FragmentShader", "ComputeShader"}

(* File names, output file names and entry points given to the shell. *)
Filenames == {<<"a">>, <<"a", ".", "h">>, <<"a", ".", "b", ".", "h">>}
OutputFilenames == {<<>>, <<"o">>, <<"*", ".", "o">>}
EntryPoints == {<<>>, <<"m">>}

----------------------------------------------------------------------------
(* Descriptors *)

OptionNames == {"preprocessOnly", "validateOnly", "optimize", "showAST",
                "autoBinding", "explicitBinding"}
Options == [OptionNames -> BOOLEAN]

PrefixNames == {"inputPrefix", "outputPrefix", "reservedWordPrefix",
                "temporaryPrefix", "namespacePrefix"}
NameManglings == [PrefixNames -> Prefixes]

Mangling(in, out, res, tmp, ns) ==
    [inputPrefix |-> Str("x", in), outputPrefix |-> Str("x", out),
     reservedWordPrefix |-> Str("x", res), temporaryPrefix |-> Str("x", tmp),
     namespacePrefix |-> Str("x", ns)]

(* The name manglings of the pipeline calls: input and output prefix equal  *)
(* and the others distinct; all five distinct with an empty namespace;      *)
(* an empty reserved-word prefix; an overlap.                               *)
PipelineManglings ==
    {Mangling(1, 1, 2, 3, 4), Mangling(1, 2, 3, 4, 0), Mangling(1, 2, 0, 3, 4),
     Mangling(1, 2, 3, 3, 4)}

----------------------------------------------------------------------------
(* Compiler.cpp *)

R_OnlyPreProcessingForNonHLSL == "R_OnlyPreProcessingForNonHLSL"
R_InputStreamCantBeNull == "R_InputStreamCantBeNull"
R_OutputStreamCantBeNull == "R_OutputStreamCantBeNull"
R_NameManglingPrefixResCantBeEmpty == "R_NameManglingPrefixResCantBeEmpty"
R_NameManglingPrefixTmpCantBeEmpty == "R_NameManglingPrefixTmpCantBeEmpty"
R_OverlappingNameManglingPrefixes == "R_OverlappingNameManglingPrefixes"
R_LangExtensionsNotSupported == "R_LangExtensionsNotSupported"
R_PreProcessingSourceFailed == "R_PreProcessingSourceFailed"
R_ParsingSourceFailed == "R_ParsingSourceFailed"
R_AnalyzingSourceFailed == "R_AnalyzingSourceFailed"
R_GeneratingOutputCodeFailed == "R_GeneratingOutputCodeFailed"

(* The build option XSC_ENABLE_LANGUAGE_EXT (off unless configured). *)
XSC_ENABLE_LANGUAGE_EXT == FALSE

Report(type, msg) == [type |-> type, msg |-> msg]

(* Mutant of ReturnWithError: the report is submitted as a warning. *)
ReturnWithErrorAsWarning(msg) ==
    IF log_ THEN Append(reports, Report("Warning", msg)) ELSE reports

(* Compiler::ReturnWithError: the log after the call (it returns false). *)
ReturnWithError(msg) ==
    IF log_ THEN Append(reports, Report("Error", msg)) ELSE reports

(* The reports a stage submits to the log it was constructed with          *)
(* (Compiler.cpp:153, 189, 212, 242) when it fails: n errors of its kind.  *)
Diagnostics(kind, n) ==
    IF log_ THEN [i \in 1..n |-> Report("Error", kind)] ELSE <<>>

(* The reports a call appended to the log. *)
Submitted(log) == SubSeq(log, Len(reports) + 1, Len(log))

(* Compiler::Warning: the log after the call. *)
Warning(msg) ==
    IF log_ THEN Append(reports, Report("Warning", msg)) ELSE reports

(* Mutant of MakeOutputDescCopy: the caller's stream is kept in validate-only mode. *)
MakeOutputDescCopyNoDummy(desc) ==
    IF desc.options.autoBinding
    THEN [desc EXCEPT !.options.explicitBinding = TRUE]
    ELSE desc

(* Mutant of MakeOutputDescCopy: autoBinding does not enable explicitBinding. *)
MakeOutputDescCopyNoExplicit(desc) ==
    IF desc.options.validateOnly
    THEN [desc EXCEPT !.sourceCode = "dummy"]
    ELSE desc

(* Compiler::CompileShader, lines 50-57: the descriptor handed on. *)
MakeOutputDescCopy(desc) ==
    LET withSink == IF desc.options.validateOnly
                    THEN [desc EXCEPT !.sourceCode = "dummy"]
                    ELSE desc
    IN  IF withSink.options.autoBinding
        THEN [withSink EXCEPT !.options.explicitBinding = TRUE]
        ELSE withSink

(* Mutant of ValidateArguments: the namespace prefix is not compared. *)
ValidateArgumentsNoNamespace(in, out) ==
    LET nameMngl == out.nameMangling IN
    IF in.sourceCode = "null" THEN R_InputStreamCantBeNull
    ELSE IF out.sourceCode = "null" THEN R_OutputStreamCantBeNull
    ELSE IF nameMngl.reservedWordPrefix = <<>> THEN R_NameManglingPrefixResCantBeEmpty
    ELSE IF nameMngl.temporaryPrefix = <<>> THEN R_NameManglingPrefixTmpCantBeEmpty
    ELSE IF \/ nameMngl.reservedWordPrefix = nameMngl.inputPrefix
            \/ nameMngl.reservedWordPrefix = nameMngl.outputPrefix
            \/ nameMngl.reservedWordPrefix = nameMngl.temporaryPrefix
            \/ nameMngl.temporaryPrefix = nameMngl.inputPrefix
            \/ nameMngl.temporaryPrefix = nameMngl.outputPrefix
         THEN R_OverlappingNameManglingPrefixes
    ELSE "none"

(* Mutant of ValidateArguments: the overlap checks come before the emptiness checks. *)
ValidateArgumentsOverlapFirst(in, out) ==
    LET nameMngl == out.nameMangling IN
    IF in.sourceCode = "null" THEN R_InputStreamCantBeNull
    ELSE IF out.sourceCode = "null" THEN R_OutputStreamCantBeNull
    ELSE IF \/ nameMngl.reservedWordPrefix = nameMngl.inputPrefix
            \/ nameMngl.reservedWordPrefix = nameMngl.outputPrefix
            \/ nameMngl.reservedWordPrefix = nameMngl.temporaryPrefix
            \/ nameMngl.temporaryPrefix = nameMngl.inputPrefix
            \/ nameMngl.temporaryPrefix = nameMngl.outputPrefix
         THEN R_OverlappingNameManglingPrefixes
    ELSE IF /\ nameMngl.namespacePrefix # <<>>
            /\ \/ nameMngl.namespacePrefix = nameMngl.inputPrefix
               \/ nameMngl.namespacePrefix = nameMngl.outputPrefix
               \/ nameMngl.namespacePrefix = nameMngl.reservedWordPrefix
               \/ nameMngl.namespacePrefix = nameMngl.temporaryPrefix
         THEN R_OverlappingNameManglingPrefixes
    ELSE IF nameMngl.reservedWordPrefix = <<>> THEN R_NameManglingPrefixResCantBeEmpty
    ELSE IF nameMngl.temporaryPrefix = <<>> THEN R_NameManglingPrefixTmpCantBeEmpty
    ELSE "none"

(* Mutant of ValidateArguments: the input stream is not checked. *)
ValidateArgumentsNoInputCheck(in, out) ==
    LET nameMngl == out.nameMangling IN
    IF out.sourceCode = "null" THEN R_OutputStreamCantBeNull
    ELSE IF nameMngl.reservedWordPrefix = <<>> THEN R_NameManglingPrefixResCantBeEmpty
    ELSE IF nameMngl.temporaryPrefix = <<>> THEN R_NameManglingPrefixTmpCantBeEmpty
    ELSE IF \/ nameMngl.reservedWordPrefix = nameMngl.inputPrefix
            \/ nameMngl.reservedWordPrefix = nameMngl.outputPrefix
            \/ nameMngl.reservedWordPrefix = nameMngl.temporaryPrefix
            \/ nameMngl.temporaryPrefix = nameMngl.inputPrefix
            \/ nameMngl.temporaryPrefix = nameMngl.outputPrefix
         THEN R_OverlappingNameManglingPrefixes
    ELSE IF /\ nameMngl.namespacePrefix # <<>>
            /\ \/ nameMngl.namespacePrefix = nameMngl.inputPrefix
               \/ nameMngl.namespacePrefix = nameMngl.outputPrefix
               \/ nameMngl.namespacePrefix = nameMngl.reservedWordPrefix
               \/ nameMngl.namespacePrefix = nameMngl.temporaryPrefix
         THEN R_OverlappingNameManglingPrefixes
    ELSE "none"

(* Compiler::ValidateArguments: the message of the std::invalid_argument   *)
(* it throws, or "none".                                                   *)
ValidateArguments(in, out) ==
    LET nameMngl == out.nameMangling IN
    IF in.sourceCode = "null" THEN R_InputStreamCantBeNull
    ELSE IF out.sourceCode = "null" THEN R_OutputStreamCantBeNull
    ELSE IF nameMngl.reservedWordPrefix = <<>> THEN R_NameManglingPrefixResCantBeEmpty
    ELSE IF nameMngl.temporaryPrefix = <<>> THEN R_NameManglingPrefixTmpCantBeEmpty
    ELSE IF \/ nameMngl.reservedWordPrefix = nameMngl.inputPrefix
            \/ nameMngl.reservedWordPrefix = nameMngl.outputPrefix
            \/ nameMngl.reservedWordPrefix = nameMngl.temporaryPrefix
            \/ nameMngl.temporaryPrefix = nameMngl.inputPrefix
            \/ nameMngl.temporaryPrefix = nameMngl.outputPrefix
         THEN R_OverlappingNameManglingPrefixes
    ELSE IF /\ nameMngl.namespacePrefix # <<>>
            /\ \/ nameMngl.namespacePrefix = nameMngl.inputPrefix
               \/ nameMngl.namespacePrefix = nameMngl.outputPrefix
               \/ nameMngl.namespacePrefix = nameMngl.reservedWordPrefix
               \/ nameMngl.namespacePrefix = nameMngl.temporaryPrefix
         THEN R_OverlappingNameManglingPrefixes
    ELSE "none"

(* operator<< on the stream the descriptor points to. *)
SinkAfterWrite(desc, text) ==
    IF desc.sourceCode = "caller" THEN sink \o text ELSE sink
DummyAfterWrite(desc, text) ==
    IF desc.sourceCode = "dummy" THEN dummyOutputStream \o text ELSE dummyOutputStream

(* A pointer to a stream: null, or the stream it owns. *)
Null == <<>>
Ptr(s) == <<s>>
Deref(p) == p[1]

Stage(name, ok) == [stage |-> name, ok |-> ok]

(* CompileShader returns `value` through line 66. *)
Return(value) ==
    /\ result' = value
    /\ pc' = "returned"

(* Compiler::CompileShader, lines 43-60: feature check, descriptor copy. *)
CompileShader ==
    /\ pc = "CompileShader"
    /\ IF ~IsLanguageHLSL(inputDesc.shaderVersion) /\ ~outputDesc.options.preprocessOnly
       THEN /\ reports' = ReturnWithError(R_OnlyPreProcessingForNonHLSL)
            /\ Return("false")
            /\ UNCHANGED outputDescCopy
       ELSE /\ outputDescCopy' = MakeOutputDescCopy(outputDesc)
            /\ pc' = "ValidateArguments"
            /\ UNCHANGED <<reports, result>>
    /\ UNCHANGED <<inputDesc, outputDesc, log_, reflectionData, processedInput,
                   generatorResult, sink, dummyOutputStream, trace, exception>>
    /\ UNCHANGED <<generatorVars, shellVars>>

(* Mutant of CallValidateArguments: the exception is caught, reported as an *)
(* error and turned into a false return.                                    *)
CallValidateArgumentsCaught ==
    /\ pc = "ValidateArguments"
    /\ LET thrown == ValidateArguments(inputDesc, outputDescCopy) IN
       IF thrown # "none"
       THEN /\ reports' = ReturnWithError(thrown)
            /\ Return("false")
       ELSE /\ reports' = IF ~XSC_ENABLE_LANGUAGE_EXT /\ inputDesc.extensions # 0
                          THEN Warning(R_LangExtensionsNotSupported)
                          ELSE reports
            /\ pc' = "PreProcess"
            /\ UNCHANGED result
    /\ UNCHANGED <<inputDesc, outputDesc, log_, reflectionData, outputDescCopy,
                   processedInput, generatorResult, sink, dummyOutputStream,
                   trace, exception>>
    /\ UNCHANGED <<generatorVars, shellVars>>

(* CompileShaderPrimary, line 138: ValidateArguments(inputDesc, outputDesc); *)
(* its exception is caught neither here nor in CompileShader.                *)
CallValidateArguments ==
    /\ pc = "ValidateArguments"
    /\ LET thrown == ValidateArguments(inputDesc, outputDescCopy) IN
       IF thrown # "none"
       THEN /\ exception' = thrown
            /\ pc' = "thrown"
            /\ UNCHANGED reports
       ELSE /\ reports' = IF ~XSC_ENABLE_LANGUAGE_EXT /\ inputDesc.extensions # 0
                          THEN Warning(R_LangExtensionsNotSupported)
                          ELSE reports
            /\ pc' = "PreProcess"
            /\ UNCHANGED exception
    /\ UNCHANGED <<inputDesc, outputDesc, log_, reflectionData, outputDescCopy,
                   processedInput, generatorResult, sink, dummyOutputStream,
                   trace, result>>
    /\ UNCHANGED <<generatorVars, shellVars>>

(* CompileShaderPrimary, lines 150-155: the pre-processor created for the  *)
(* input language, or null.                                                *)
(* Mutant of MakePreProcessor: without the GLSL branch. *)
MakePreProcessorOnlyHLSL(shaderVersion) ==
    IF IsLanguageHLSL(shaderVersion) THEN "PreProcessor" ELSE "null"

MakePreProcessor(shaderVersion) ==
    IF IsLanguageHLSL(shaderVersion) THEN "PreProcessor"
    ELSE IF IsLanguageGLSL(shaderVersion) THEN "GLSLPreProcessor"
    ELSE "null"

(* Mutant of PreProcess: preprocessOnly does not end the pipeline. *)
PreProcessNoShortCut ==
    /\ pc = "PreProcess"
    /\ \E processed \in {Null} \cup {Ptr(s) : s \in Streams}, n \in 0..MaxDiagnostics :
        /\ IF processed = Null THEN TRUE ELSE n = 0
        /\ trace' = Append(trace, Stage("PreProcessor", processed # Null))
        /\ reflectionData' = IF reflectionData.present
                             THEN [reflectionData EXCEPT !.macros = "listed"]
                             ELSE reflectionData
        /\ IF processed = Null
           THEN /\ reports' = (reports \o Diagnostics("PreprocessError", n))
                                \o Submitted(ReturnWithError(R_PreProcessingSourceFailed))
                /\ Return("false")
                /\ UNCHANGED <<sink, dummyOutputStream, processedInput>>
           ELSE /\ sink' = IF outputDescCopy.options.preprocessOnly
                           THEN SinkAfterWrite(outputDescCopy, Deref(processed))
                           ELSE sink
                /\ dummyOutputStream' = IF outputDescCopy.options.preprocessOnly
                                        THEN DummyAfterWrite(outputDescCopy, Deref(processed))
                                        ELSE dummyOutputStream
                /\ processedInput' = processed
                /\ pc' = "Parse"
                /\ UNCHANGED <<reports, result>>
    /\ UNCHANGED <<inputDesc, outputDesc, log_, outputDescCopy, generatorResult,
                   exception>>
    /\ UNCHANGED <<generatorVars, shellVars>>

(* Mutant of PreProcess: the macros are listed only after Process        *)
(* returned a stream.                                                      *)
PreProcessMacrosOnSuccess ==
    /\ pc = "PreProcess"
    /\ IF MakePreProcessor(inputDesc.shaderVersion) = "null"
       THEN /\ pc' = "crashed"
            /\ UNCHANGED <<reflectionData, processedInput, sink, dummyOutputStream,
                           reports, trace, result>>
       ELSE \E processed \in {Null} \cup {Ptr(s) : s \in Streams}, n \in 0..MaxDiagnostics :
            /\ IF processed = Null THEN TRUE ELSE n = 0
            /\ trace' = Append(trace, Stage("PreProcessor", processed # Null))
            /\ reflectionData' = IF reflectionData.present /\ processed # Null
                                 THEN [reflectionData EXCEPT !.macros = "listed"]
                                 ELSE reflectionData
            /\ IF processed = Null
               THEN /\ reports' = (reports \o Diagnostics("PreprocessError", n))
                                    \o Submitted(ReturnWithError(R_PreProcessingSourceFailed))
                    /\ Return("false")
                    /\ UNCHANGED <<sink, dummyOutputStream, processedInput>>
               ELSE IF outputDescCopy.options.preprocessOnly
               THEN /\ sink' = SinkAfterWrite(outputDescCopy, Deref(processed))
                    /\ dummyOutputStream' = DummyAfterWrite(outputDescCopy, Deref(processed))
                    /\ processedInput' = processed
                    /\ Return("true")
                    /\ UNCHANGED reports
               ELSE /\ processedInput' = processed
                    /\ pc' = "Parse"
                    /\ UNCHANGED <<sink, dummyOutputStream, reports, result>>
    /\ UNCHANGED <<inputDesc, outputDesc, log_, outputDescCopy, generatorResult,
                   exception>>
    /\ UNCHANGED <<generatorVars, shellVars>>

(* CompileShaderPrimary, lines 140-174: pre-processing.  Process on a null *)
(* pre-processor is a null dereference: the call does not return.          *)
PreProcess ==
    /\ pc = "PreProcess"
    /\ IF MakePreProcessor(inputDesc.shaderVersion) = "null"
       THEN /\ pc' = "crashed"
            /\ UNCHANGED <<reflectionData, processedInput, sink, dummyOutputStream,
                           reports, trace, result>>
       ELSE \E processed \in {Null} \cup {Ptr(s) : s \in Streams}, n \in 0..MaxDiagnostics :
            /\ IF processed = Null THEN TRUE ELSE n = 0
            /\ trace' = Append(trace, Stage("PreProcessor", processed # Null))
            /\ reflectionData' = IF reflectionData.present
                                 THEN [reflectionData EXCEPT !.macros = "listed"]
                                 ELSE reflectionData
            /\ IF processed = Null
               THEN /\ reports' = (reports \o Diagnostics("PreprocessError", n))
                                    \o Submitted(ReturnWithError(R_PreProcessingSourceFailed))
                    /\ Return("false")
                    /\ UNCHANGED <<sink, dummyOutputStream, processedInput>>
               ELSE IF outputDescCopy.options.preprocessOnly
               THEN /\ sink' = SinkAfterWrite(outputDescCopy, Deref(processed))
                    /\ dummyOutputStream' = DummyAfterWrite(outputDescCopy, Deref(processed))
                    /\ processedInput' = processed
                    /\ Return("true")
                    /\ UNCHANGED reports
               ELSE /\ processedInput' = processed
                    /\ pc' = "Parse"
                    /\ UNCHANGED <<sink, dummyOutputStream, reports, result>>
    /\ UNCHANGED <<inputDesc, outputDesc, log_, outputDescCopy, generatorResult,
                   exception>>
    /\ UNCHANGED <<generatorVars, shellVars>>

(* Mutant of Parse: a failed parse does not end the pipeline. *)
ParseNoReturn ==
    /\ pc = "Parse"
    /\ \E parsed \in BOOLEAN, n \in 0..MaxDiagnostics :
        LET hlsl == IsLanguageHLSL(inputDesc.shaderVersion)
        IN  /\ IF hlsl /\ ~parsed THEN TRUE ELSE n = 0
            /\ trace' = IF hlsl THEN Append(trace, Stage("Parser", parsed)) ELSE trace
            /\ processedInput' = IF hlsl THEN Null ELSE processedInput
            /\ pc' = "Analyze"
            /\ reports' = reports \o Diagnostics("SyntaxError", n)
            /\ UNCHANGED result
    /\ UNCHANGED <<inputDesc, outputDesc, log_, reflectionData, outputDescCopy,
                   generatorResult, sink, dummyOutputStream, exception>>
    /\ UNCHANGED <<generatorVars, shellVars>>

(* Mutant of Parse: a failed parse returns false without the compiler's    *)
(* own report.                                                             *)
ParseNoReport ==
    /\ pc = "Parse"
    /\ \E parsed \in BOOLEAN, n \in 0..MaxDiagnostics :
        LET hlsl == IsLanguageHLSL(inputDesc.shaderVersion)
            haveProgram == hlsl /\ parsed
        IN  /\ IF hlsl /\ ~parsed THEN TRUE ELSE n = 0
            /\ trace' = IF hlsl THEN Append(trace, Stage("Parser", parsed)) ELSE trace
            /\ processedInput' = IF hlsl THEN Null ELSE processedInput
            /\ reports' = reports \o Diagnostics("SyntaxError", n)
            /\ IF ~haveProgram
               THEN Return("false")
               ELSE /\ pc' = "Analyze"
                    /\ UNCHANGED result
    /\ UNCHANGED <<inputDesc, outputDesc, log_, reflectionData, outputDescCopy,
                   generatorResult, sink, dummyOutputStream, exception>>
    /\ UNCHANGED <<generatorVars, shellVars>>

(* CompileShaderPrimary, lines 176-200: parsing. *)
Parse ==
    /\ pc = "Parse"
    /\ \E parsed \in BOOLEAN, n \in 0..MaxDiagnostics :
        LET hlsl == IsLanguageHLSL(inputDesc.shaderVersion)
            haveProgram == hlsl /\ parsed
        IN  /\ IF hlsl /\ ~parsed THEN TRUE ELSE n = 0
            /\ trace' = IF hlsl THEN Append(trace, Stage("Parser", parsed)) ELSE trace
            /\ processedInput' = IF hlsl THEN Null ELSE processedInput
            /\ IF ~haveProgram
               THEN /\ reports' = (reports \o Diagnostics("SyntaxError", n))
                                    \o Submitted(ReturnWithError(R_ParsingSourceFailed))
                    /\ Return("false")
               ELSE /\ pc' = "Analyze"
                    /\ UNCHANGED <<reports, result>>
    /\ UNCHANGED <<inputDesc, outputDesc, log_, reflectionData, outputDescCopy,
                   generatorResult, sink, dummyOutputStream, exception>>
    /\ UNCHANGED <<generatorVars, shellVars>>

(* CompileShaderPrimary, lines 202-223: context analysis and AST printer. *)
Analyze ==
    /\ pc = "Analyze"
    /\ \E decorated \in BOOLEAN, n \in 0..MaxDiagnostics :
        LET hlsl == IsLanguageHLSL(inputDesc.shaderVersion)
            analyzerResult == hlsl /\ decorated
            analyzed == IF hlsl THEN Append(trace, Stage("Analyzer", decorated)) ELSE trace
        IN  /\ IF hlsl /\ ~decorated THEN TRUE ELSE n = 0
            /\ trace' = IF outputDescCopy.options.showAST /\ log_
                        THEN Append(analyzed, Stage("ASTPrinter", TRUE))
                        ELSE analyzed
            /\ IF ~analyzerResult
               THEN /\ reports' = (reports \o Diagnostics("SemanticError", n))
                                    \o Submitted(ReturnWithError(R_AnalyzingSourceFailed))
                    /\ Return("false")
               ELSE /\ pc' = "Optimize"
                    /\ UNCHANGED <<reports, result>>
    /\ UNCHANGED <<inputDesc, outputDesc, log_, reflectionData, outputDescCopy,
                   processedInput, generatorResult, sink, dummyOutputStream,
                   exception>>
    /\ UNCHANGED <<generatorVars, shellVars>>

(* CompileShaderPrimary, lines 225-232: optimizer. *)
Optimize ==
    /\ pc = "Optimize"
    /\ trace' = IF outputDescCopy.options.optimize
                THEN Append(trace, Stage("Optimizer", TRUE))
                ELSE trace
    /\ pc' = "Generate"
    /\ UNCHANGED <<inputDesc, outputDesc, log_, reflectionData, outputDescCopy,
                   processedInput, generatorResult, sink, dummyOutputStream,
                   reports, result, exception>>
    /\ UNCHANGED <<generatorVars, shellVars>>

(* CompileShaderPrimary, lines 234-250: code generation.  The generator    *)
(* writes some text to the descriptor's stream and returns a verdict.      *)
Generate ==
    /\ pc = "Generate"
    /\ \E generated \in BOOLEAN, text \in Streams, n \in 0..MaxDiagnostics :
        IF \/ IsOutputGLSL(outputDescCopy.shaderVersion)
           \/ IsOutputESSL(outputDescCopy.shaderVersion)
           \/ IsOutputVKSL(outputDescCopy.shaderVersion)
        THEN /\ IF generated THEN n = 0 ELSE TRUE
             /\ trace' = Append(trace, Stage("Generator", generated))
             /\ sink' = SinkAfterWrite(outputDescCopy, text)
             /\ dummyOutputStream' = DummyAfterWrite(outputDescCopy, text)
             /\ generatorResult' = generated
             /\ reports' = reports \o Diagnostics("GeneratorError", n)
        ELSE /\ n = 0
             /\ generatorResult' = FALSE
             /\ UNCHANGED <<trace, sink, dummyOutputStream, reports>>
    /\ pc' = "Reflect"
    /\ UNCHANGED <<inputDesc, outputDesc, log_, reflectionData, outputDescCopy,
                   processedInput, result, exception>>
    /\ UNCHANGED <<generatorVars, shellVars>>

(* CompileShaderPrimary, lines 252-270: reflection, then the verdict. *)
Reflect ==
    /\ pc = "Reflect"
    /\ IF reflectionData.present
       THEN /\ trace' = Append(trace, Stage("ReflectionAnalyzer", TRUE))
            /\ reflectionData' = [reflectionData EXCEPT !.reflected = TRUE]
       ELSE UNCHANGED <<trace, reflectionData>>
    /\ IF ~generatorResult
       THEN /\ reports' = ReturnWithError(R_GeneratingOutputCodeFailed)
            /\ Return("false")
       ELSE /\ Return("true")
            /\ UNCHANGED reports
    /\ UNCHANGED <<inputDesc, outputDesc, log_, outputDescCopy, processedInput,
                   generatorResult, sink, dummyOutputStream, exception>>
    /\ UNCHANGED <<generatorVars, shellVars>>

CompilerNext ==
    \/ CompileShader
    \/ CallValidateArguments
    \/ PreProcess
    \/ Parse
    \/ Analyze
    \/ Optimize
    \/ Generate
    \/ Reflect

----------------------------------------------------------------------------
(* HLSLGenerator.cpp *)

(* The declaration statements of Program::globalStmnts the generator visits. *)
(* A BasicDeclStmnt is named by its declaration object.                      *)
StmntKinds == {"FunctionDecl", "UniformBufferDecl", "StructDecl", "BufferDeclStmnt",
               "SamplerDeclStmnt", "VarDeclStmnt", "AliasDeclStmnt"}

(* What the visit procedures read of a statement besides its flags:         *)
(* FunctionDecl::hasNonReturnControlPath (line 238), a static member        *)
(* variable (line 327), an alias without a named structDecl (line 381).     *)
StmntShapes ==
    {<<k, "plain">> : k \in StmntKinds}
        \cup {<<"FunctionDecl", "hasNonReturnControlPath">>,
              <<"VarDeclStmnt", "staticMember">>,
              <<"AliasDeclStmnt", "noStructDecl">>}

(* Identifiers of the declarations, by position in globalStmnts. *)
Idents == <<"d1", "d2", "d3", "d4">>

(* A declaration statement as the parser builds it: no flag set, no layout  *)
(* derived.  refs are the declarations it calls, uses as a type or accesses.*)
(* reachable is AST::isReachable of the statement, declReachable that of    *)
(* the declaration object of a BasicDeclStmnt.                              *)
DeclStmnt(shape, ident, refs) ==
    [kind |-> shape[1], detail |-> shape[2], ident |-> ident, refs |-> refs,
     reachable |-> FALSE, declReachable |-> FALSE, commonStorageLayout |-> "Undefined"]

(* The elements of a set of statement indices, in increasing order. *)
RECURSIVE Ascending(_)
Ascending(S) ==
    IF S = {} THEN <<>>
    ELSE LET least == CHOOSE i \in S : \A j \in S : i <= j
         IN  <<least>> \o Ascending(S \ {least})

(* The visitor of the reference analyzer: a declaration not yet flagged is  *)
(* flagged and what it refers to is visited; a flagged one is not entered   *)
(* again.  `pending` are the declarations still to visit.                   *)
RECURSIVE VisitReferences(_, _)
VisitReferences(stmnts, pending) ==
    IF pending = <<>> THEN stmnts
    ELSE LET i == Head(pending) IN
         IF stmnts[i].reachable
         THEN VisitReferences(stmnts, Tail(pending))
         ELSE VisitReferences(
                [stmnts EXCEPT ![i].reachable = TRUE, ![i].declReachable = TRUE],
                Ascending(stmnts[i].refs) \o Tail(pending))

(* Mutant of MarkReferencesFromEntryPoint: only the entry point and what it *)
(* refers to directly are flagged.                                          *)
MarkReferencesDirectOnly(prog) ==
    [prog EXCEPT !.globalStmnts =
        [i \in 1..Len(@) |->
            IF i = prog.entryPointRef \/ i \in @[prog.entryPointRef].refs
            THEN [@[i] EXCEPT !.reachable = TRUE, !.declReachable = TRUE]
            ELSE @[i]]]

(* ReferenceAnalyzer::MarkReferencesFromEntryPoint, as called at line 730.  *)
MarkReferencesFromEntryPoint(prog) ==
    [prog EXCEPT !.globalStmnts = VisitReferences(@, <<prog.entryPointRef>>)]

(* UniformBufferDecl::DeriveCommonStorageLayout (called at line 266 for its *)
(* effect: the value it returns is discarded): the layout it stores in the  *)
(* node.                                                                    *)
DeriveCommonStorageLayout(ast) == [ast EXCEPT !.commonStorageLayout = "Derived"]

(* A line of declaration text: the keyword and the identifier written. *)
DeclText(keyword, ast) == << <<keyword, ast.ident>> >>

(* What one visit procedure did: the lines it wrote, the node as it left it, *)
(* and the message of the Error it raised ("none" when it returned).         *)
Visited(text, ast, error) ==
    [text |-> text, ast |-> ast, error |-> error, warning |-> "none"]

(* Generator::WarnEnabled: the warning class is among the enabled ones. *)
WarnEnabled(flags) == flags \in genDesc.warnings

(* Mutant of VisitFunctionDecl: the control paths are checked before the    *)
(* test of AST::isReachable.                                                *)
VisitFunctionDeclCheckFirst(ast) ==
    IF ast.detail = "hasNonReturnControlPath"
    THEN Visited(<<>>, ast, "R_InvalidControlPathInFunc")
    ELSE IF ~ast.declReachable THEN Visited(<<>>, ast, "none")
    ELSE Visited(DeclText("function", ast), ast, "none")

(* VisitFunctionDecl, lines 226-255. *)
VisitFunctionDecl(ast) ==
    IF ~ast.declReachable
    THEN IF WarnEnabled("Basic") /\ ast.detail = "hasNonReturnControlPath"
         THEN [Visited(<<>>, ast, "none") EXCEPT !.warning = "R_InvalidControlPathInUnrefFunc"]
         ELSE Visited(<<>>, ast, "none")
    ELSE IF ast.detail = "hasNonReturnControlPath"
    THEN Visited(<<>>, ast, "R_InvalidControlPathInFunc")
    ELSE Visited(DeclText("function", ast), ast, "none")

(* VisitUniformBufferDecl, lines 257-286. *)
VisitUniformBufferDecl(ast) ==
    IF ~ast.declReachable THEN Visited(<<>>, ast, "none")
    ELSE Visited(DeclText("cbuffer", ast), DeriveCommonStorageLayout(ast), "none")

(* VisitBufferDeclStmnt, lines 288-308. *)
VisitBufferDeclStmnt(ast) ==
    IF ast.reachable THEN Visited(DeclText("buffer", ast), ast, "none")
    ELSE Visited(<<>>, ast, "none")

(* VisitSamplerDeclStmnt, lines 310-317, and WriteSamplerDecl. *)
VisitSamplerDeclStmnt(ast) ==
    IF ast.reachable THEN Visited(DeclText("sampler", ast), ast, "none")
    ELSE Visited(<<>>, ast, "none")

(* VisitVarDeclStmnt, lines 319-377, for a statement of the global scope    *)
(* (InsideFunctionDecl and InsideStructDecl are false there).               *)
VisitVarDeclStmnt(ast) ==
    IF ~ast.reachable THEN Visited(<<>>, ast, "none")
    ELSE IF ast.detail = "staticMember" THEN Visited(<<>>, ast, "none")
    ELSE Visited(DeclText("var", ast), ast, "none")

(* VisitAliasDeclStmnt, lines 379-391, with VisitStructDecl and WriteStructDecl. *)
VisitAliasDeclStmnt(ast) ==
    IF ast.detail # "noStructDecl" THEN Visited(DeclText("struct", ast), ast, "none")
    ELSE Visited(<<>>, ast, "none")

(* VisitBasicDeclStmnt, lines 393-413. *)
VisitBasicDeclStmnt(ast) ==
    IF ~ast.reachable THEN Visited(<<>>, ast, "none")
    ELSE IF ast.kind = "StructDecl" THEN Visited(DeclText("struct", ast), ast, "none")
    ELSE IF ast.kind = "FunctionDecl" THEN VisitFunctionDecl(ast)
    ELSE VisitUniformBufferDecl(ast)

(* Visit(ast) of WriteStmntList (lines 1265-1286): every statement of the   *)
(* list is visited, whatever its flags.                                     *)
VisitGlobalStmnt(ast) ==
    CASE ast.kind = "BufferDeclStmnt" -> VisitBufferDeclStmnt(ast)
      [] ast.kind = "SamplerDeclStmnt" -> VisitSamplerDeclStmnt(ast)
      [] ast.kind = "VarDeclStmnt" -> VisitVarDeclStmnt(ast)
      [] ast.kind = "AliasDeclStmnt" -> VisitAliasDeclStmnt(ast)
      [] OTHER -> VisitBasicDeclStmnt(ast)

(* What a call into code outside the generator can do: return, or leave by *)
(* one of the exceptions GenerateCodePrimary distinguishes (lines 92-103). *)
CallOutcomes == {"ok", "Report", "ASTRuntimeError", "std::exception"}

(* Mutant of PreProcessAST: the reference analyzer runs first. *)
PreProcessASTReferencesFirst ==
    <<"ReferenceAnalyzer", "StructParameterAnalyzer", "FuncNameConverter">>

(* HLSLGenerator::PreProcessAST, lines 698-700: the transformers, in call order. *)
PreProcessAST == <<"StructParameterAnalyzer", "FuncNameConverter", "ReferenceAnalyzer">>

(* GenerateCodePrimary, lines 78-87: the header, as WriteComment/Blank calls. *)
HeaderLines(in) ==
    << <<"// ", "HLSL", in.shaderTarget, in.entryPoint>>,
       <<"// ", "Generated by XShaderCompiler">>,
       <<"// ", "TimePoint">>,
       <<>> >>

(* GenerateCodePrimary, lines 92-103: what the try block's handlers do with *)
(* an exception: a Report is rethrown, the others become Error(e.what()).   *)
Catch(outcome) ==
    /\ gpc' = "thrown"
    /\ genErrors' = IF outcome = "Report" THEN genErrors ELSE Append(genErrors, outcome)

(* Mutant of GenerateCodePrimary: without an entry point it returns        *)
(* without the error.                                                      *)
GenerateCodePrimaryNoError ==
    /\ gpc = "GenerateCodePrimary"
    /\ gpc' = IF program.entryPointRef # 0 THEN "PreProcessAST" ELSE "returned"
    /\ UNCHANGED <<program, genDesc, genEvents, genOut, genErrors, genWarnings, literal,
                   procCall>>
    /\ UNCHANGED <<compilerVars, shellVars>>

(* GenerateCodePrimary, lines 57-71 and 105-106: parameters, entry point. *)
GenerateCodePrimary ==
    /\ gpc = "GenerateCodePrimary"
    /\ IF program.entryPointRef # 0
       THEN /\ gpc' = "PreProcessAST"
            /\ UNCHANGED genErrors
       ELSE /\ gpc' = "thrown"
            /\ genErrors' = Append(genErrors, "R_EntryPointNotFound")
    /\ UNCHANGED <<program, genDesc, genEvents, genOut, genWarnings, literal, procCall>>
    /\ UNCHANGED <<compilerVars, shellVars>>

(* GenerateCodePrimary, line 76: the next transformer of PreProcessAST runs. *)
(* The reference analyzer flags the program; what the other two change of   *)
(* the AST is outside the declarations' reachability and layout.            *)
RunTransformer ==
    /\ gpc = "PreProcessAST"
    /\ \E outcome \in CallOutcomes :
        LET done == Len(SelectSeq(genEvents, LAMBDA e : e \in {PreProcessAST[i] : i \in 1..Len(PreProcessAST)}))
            transformer == PreProcessAST[done + 1]
        IN  /\ genEvents' = Append(genEvents, transformer)
            /\ program' = IF transformer = "ReferenceAnalyzer" /\ outcome = "ok"
                          THEN MarkReferencesFromEntryPoint(program)
                          ELSE program
            /\ IF outcome # "ok"
               THEN Catch(outcome)
               ELSE /\ gpc' = IF done + 1 = Len(PreProcessAST) THEN "WriteHeader" ELSE "PreProcessAST"
                    /\ UNCHANGED genErrors
    /\ UNCHANGED <<genDesc, genOut, genWarnings, literal, procCall>>
    /\ UNCHANGED <<compilerVars, shellVars>>

(* GenerateCodePrimary, lines 78-87: the header comments and a blank line. *)
WriteHeader ==
    /\ gpc = "WriteHeader"
    /\ genOut' = genOut \o HeaderLines(genDesc)
    /\ genEvents' = genEvents \o <<"WriteComment", "WriteComment", "WriteComment", "Blank">>
    /\ gpc' = "Visit"
    /\ UNCHANGED <<program, genDesc, genErrors, genWarnings, literal, procCall>>
    /\ UNCHANGED <<compilerVars, shellVars>>

(* GenerateCodePrimary, line 90, and VisitProgram, lines 119-122:           *)
(* Visit(&program) writes the global uniforms of the entry point.           *)
VisitProgram ==
    /\ gpc = "Visit"
    /\ \E outcome \in CallOutcomes, text \in Streams :
        /\ genEvents' = Append(genEvents, "Visit")
        /\ genOut' = IF text = <<>> THEN genOut ELSE Append(genOut, text)
        /\ IF outcome # "ok"
           THEN Catch(outcome)
           ELSE /\ gpc' = IF program.globalStmnts = <<>> THEN "returned" ELSE "WriteStmntList"
                /\ UNCHANGED genErrors
    /\ UNCHANGED <<program, genDesc, genWarnings, literal, procCall>>
    /\ UNCHANGED <<compilerVars, shellVars>>

(* The global statements visited so far. *)
StmntsVisited == Len(SelectSeq(genEvents, LAMBDA e : e = "VisitStmnt"))

(* VisitProgram, line 125: WriteStmntList(ast->globalStmnts, true) visits   *)
(* the next global statement.                                               *)
WriteStmntList ==
    /\ gpc = "WriteStmntList"
    /\ LET i == StmntsVisited + 1
           visit == VisitGlobalStmnt(program.globalStmnts[i])
       IN  /\ genEvents' = Append(genEvents, "VisitStmnt")
           /\ genOut' = genOut \o visit.text
           /\ program' = [program EXCEPT !.globalStmnts[i] = visit.ast]
           /\ IF visit.error # "none"
              THEN /\ gpc' = "thrown"
                   /\ genErrors' = Append(genErrors, visit.error)
              ELSE /\ gpc' = IF i = Len(program.globalStmnts) THEN "returned" ELSE "WriteStmntList"
                   /\ UNCHANGED genErrors
           /\ genWarnings' = IF visit.warning # "none"
                             THEN Append(genWarnings, visit.warning)
                             ELSE genWarnings
    /\ UNCHANGED <<genDesc, literal, procCall>>
    /\ UNCHANGED <<compilerVars, shellVars>>

(* DataType (ASTEnums.h is not among the sources): the scalar and vector    *)
(* types, and two types that are neither.                                   *)
ScalarTypes == {"Bool", "Int", "UInt", "Half", "Float", "Double"}
VectorTypes == {"Float2", "UInt4"}
DataTypes == ScalarTypes \cup VectorTypes \cup {"Float4x4", "Undefined"}
IsScalarType(dataType) == dataType \in ScalarTypes
IsVectorType(dataType) == dataType \in VectorTypes

(* std::string::find_first_of(".eE") != npos *)
HasPointOrExponent(value) == \E i \in 1..Len(value) : value[i] \in {".", "e", "E"}

(* Mutant of WriteLiteral: the float suffix is written only when the value  *)
(* has no decimal point or exponent.                                        *)
WriteLiteralSuffixWithPoint(value, dataType) ==
    IF IsScalarType(dataType)
    THEN [text |-> value \o
                   (CASE dataType = "UInt" ->
                            IF value # <<>> /\ value[Len(value)] \notin {"u", "U"}
                            THEN <<"u">> ELSE <<>>
                      [] dataType = "Float" ->
                            IF ~HasPointOrExponent(value) THEN <<".", "0", "f">> ELSE <<>>
                      [] OTHER -> <<>>),
          error |-> "none"]
    ELSE IF IsVectorType(dataType)
    THEN [text |-> ((<<dataType>> \o <<"(">>) \o value) \o <<")">>, error |-> "none"]
    ELSE [text |-> <<>>, error |-> "R_FailedToWriteLiteralType"]

(* HLSLGenerator::WriteLiteral, lines 1338-1368: the characters written and *)
(* the Error raised ("none" when it returns).  WriteDataType writes the     *)
(* keyword of the type.                                                     *)
WriteLiteral(value, dataType) ==
    IF IsScalarType(dataType)
    THEN [text |-> value \o
                   (CASE dataType = "UInt" ->
                            IF value # <<>> /\ value[Len(value)] \notin {"u", "U"}
                            THEN <<"u">> ELSE <<>>
                      [] dataType = "Float" ->
                            (IF ~HasPointOrExponent(value) THEN <<".", "0">> ELSE <<>>)
                                \o <<"f">>
                      [] OTHER -> <<>>),
          error |-> "none"]
    ELSE IF IsVectorType(dataType)
    THEN [text |-> ((<<dataType>> \o <<"(">>) \o value) \o <<")">>, error |-> "none"]
    ELSE [text |-> <<>>, error |-> "R_FailedToWriteLiteralType"]

(* A call of WriteLiteral(literal.value, literal.dataType) on its own: the *)
(* characters it writes are kept in literal.text.                          *)
CallWriteLiteral ==
    /\ gpc = "WriteLiteral"
    /\ LET written == WriteLiteral(literal.value, literal.dataType)
       IN  /\ literal' = [literal EXCEPT !.called = TRUE, !.text = written.text]
           /\ IF written.error # "none"
              THEN /\ gpc' = "thrown"
                   /\ genErrors' = Append(genErrors, written.error)
              ELSE /\ gpc' = "returned"
                   /\ UNCHANGED genErrors
    /\ UNCHANGED <<program, genDesc, genEvents, genOut, genWarnings, procCall>>
    /\ UNCHANGED <<compilerVars, shellVars>>

(* A call of VisitFunctionDecl(procCall.args) on its own. *)
CallVisitFunctionDecl ==
    /\ gpc = "VisitFunctionDecl"
    /\ LET visit == VisitFunctionDecl(procCall.args)
       IN  /\ procCall' = [procCall EXCEPT !.called = TRUE, !.text = visit.text,
                                           !.error = visit.error,
                                           !.warning = visit.warning]
           /\ gpc' = IF visit.error # "none" THEN "thrown" ELSE "returned"
    /\ UNCHANGED <<program, genDesc, genEvents, genOut, genErrors, genWarnings, literal>>
    /\ UNCHANGED <<compilerVars, shellVars>>

(* ---- HLSLGenerator::WriteComment (HLSLGenerator.cpp:735-756) ---------- *)
(* std::size_t arithmetic.                                                 *)
SizeMax == 2^SizeBits - 1
SizeT(i) == i % (2^SizeBits)

(* std::string::npos.                                                      *)
npos == SizeMax

(* std::string::find(ch, pos): offsets count from 0.                       *)
Find(text, ch, pos) ==
    LET hits == {i \in pos..(Len(text) - 1) : text[i + 1] = ch}
    IN  IF hits = {} THEN npos
        ELSE CHOOSE i \in hits : \A j \in hits : i <= j

(* std::string::substr(pos, count) and substr(pos), for pos <= size().     *)
Substr(text, pos, count) ==
    SubSeq(text, pos + 1, IF pos + count < Len(text) THEN pos + count ELSE Len(text))
SubstrFrom(text, pos) == SubSeq(text, pos + 1, Len(text))

(* One test of the loop condition of WriteComment and, when it holds, one  *)
(* iteration (lines 739-755); the call returns when the condition fails.   *)
WriteComment ==
    /\ gpc = "WriteComment"
    /\ LET text == procCall.args.text
           start == procCall.args.start
       IN  IF procCall.args.end < Len(text)
           THEN LET end == Find(text, "\n", start)
                    line == IF end < Len(text)
                            THEN Substr(text, start, SizeT(end - start + 2^SizeBits))
                            ELSE SubstrFrom(text, start)
                IN  /\ procCall' = [procCall EXCEPT
                                        !.called = TRUE,
                                        !.text = Append(@, <<"// ">> \o line),
                                        !.args = [text |-> text, start |-> SizeT(end + 1),
                                                  end |-> end]]
                    /\ UNCHANGED gpc
           ELSE /\ procCall' = [procCall EXCEPT !.called = TRUE]
                /\ gpc' = "returned"
    /\ UNCHANGED <<program, genDesc, genEvents, genOut, genErrors, genWarnings, literal>>
    /\ UNCHANGED <<compilerVars, shellVars>>

(* ---- HLSLGenerator::WriteCallExprArguments (HLSLGenerator.cpp:1155-1175) *)
(* ~0u: an unsigned int with every bit set, converted to std::size_t.      *)
UIntMax == 2^UIntBits - 1

(* std::min.                                                               *)
Min(a, b) == IF a < b THEN a ELSE b

(* The loop of lines 1165-1174 from index i on: what it writes.            *)
RECURSIVE WriteArgumentsFrom(_, _, _)
WriteArgumentsFrom(callExpr, i, m) ==
    IF i < m
    THEN LET n == Len(callExpr.arguments)
             visit == IF i < n
                      THEN <<callExpr.arguments[i + 1]>>
                      ELSE <<callExpr.defaultArgumentRefs[i - n + 1]>>
             separator == IF SizeT(i + 1) < m THEN <<", ">> ELSE <<>>
         IN  (visit \o separator) \o WriteArgumentsFrom(callExpr, SizeT(i + 1), m)
    ELSE <<>>

WriteCallExprArgumentsWrapping(callExpr, firstArgIndex, numWriteArgs) ==
    LET sum == SizeT(numWriteArgs + firstArgIndex)
        n == Len(callExpr.arguments)
        m == Min(sum, SizeT(n + Len(callExpr.defaultArgumentRefs)))
    IN  WriteArgumentsFrom(callExpr, firstArgIndex, m)

(* Lines 1155-1175.                                                        *)
WriteCallExprArguments(callExpr, firstArgIndex, numWriteArgs) ==
    LET sum == SizeT(numWriteArgs + firstArgIndex)
        limit == IF numWriteArgs <= sum THEN sum ELSE UIntMax
        n == Len(callExpr.arguments)
        m == Min(limit, SizeT(n + Len(callExpr.defaultArgumentRefs)))
    IN  WriteArgumentsFrom(callExpr, firstArgIndex, m)

(* A call of WriteCallExprArguments.                                       *)
CallWriteCallExprArguments ==
    /\ gpc = "WriteCallExprArguments"
    /\ procCall' = [procCall EXCEPT
                        !.called = TRUE,
                        !.text = WriteCallExprArguments(procCall.args.callExpr,
                                                        procCall.args.firstArgIndex,
                                                        procCall.args.numWriteArgs)]
    /\ gpc' = "returned"
    /\ UNCHANGED <<program, genDesc, genEvents, genOut, genErrors, genWarnings, literal>>
    /\ UNCHANGED <<compilerVars, shellVars>>

GeneratorNext ==
    \/ WriteComment
    \/ CallWriteCallExprArguments
    \/ GenerateCodePrimary
    \/ RunTransformer
    \/ WriteHeader
    \/ VisitProgram
    \/ WriteStmntList
    \/ CallWriteLiteral
    \/ CallVisitFunctionDecl

----------------------------------------------------------------------------
(* Shell.cpp (src/unnamed/part_001) *)

(* std::string::find_last_of(c): the last index of c in s, 0 for npos. *)
FindLastOf(s, c) ==
    LET at == {i \in 1..Len(s) : s[i] = c}
    IN  IF at = {} THEN 0 ELSE CHOOSE i \in at : \A j \in at : j <= i

(* GetFilePart: the filename without its extension. *)
GetFilePart(s) ==
    LET pos == FindLastOf(s, ".")
    IN  IF pos = 0 THEN s ELSE SubSeq(s, 1, pos - 1)

TargetToExtension(shaderTarget) ==
    CASE shaderTarget = "VertexShader" -> <<"v", "e", "r", "t">>
      [] shaderTarget = "TessellationControlShader" -> <<"t", "e", "s", "c">>
      [] shaderTarget = "TessellationEvaluationShader" -> <<"t", "e", "s", "e">>
      [] shaderTarget = "GeometryShader" -> <<"g", "e", "o", "m">>
      [] shaderTarget = "FragmentShader" -> <<"f", "r", "a", "g">>
      [] shaderTarget = "ComputeShader" -> <<"c", "o", "m", "p">>
      [] OTHER -> <<"g", "l", "s", "l">>

(* Mutant of GetDefaultOutputFilename: an empty entry point is left out    *)
(* together with its dot.                                                  *)
GetDefaultOutputFilenameNoEmptyEntry(filename) ==
    GetFilePart(filename)
        \o (IF state_.entryPoint # <<>> THEN <<".">> \o state_.entryPoint ELSE <<>>)
        \o <<".">> \o TargetToExtension(state_.shaderTarget)

(* Shell::GetDefaultOutputFilename *)
GetDefaultOutputFilename(filename) ==
    GetFilePart(filename) \o <<".">> \o state_.entryPoint \o <<".">>
        \o TargetToExtension(state_.shaderTarget)

(* Replace(s, "*", to) of Helper.h: every '*' of s becomes `to`. *)
RECURSIVE Replace(_, _, _)
Replace(s, from, to) ==
    IF s = <<>> THEN <<>>
    ELSE IF Head(s) = from THEN to \o Replace(Tail(s), from, to)
    ELSE <<Head(s)>> \o Replace(Tail(s), from, to)

(* Shell::Compile, lines 210-216: the name of the output file. *)
OutputFilename(filename) ==
    IF state_.outputFilename = <<>>
    THEN GetDefaultOutputFilename(filename)
    ELSE Replace(state_.outputFilename, "*", GetDefaultOutputFilename(filename))

(* Shell::Compile, lines 259-266: the status line of a verbose run. *)
StatusLines(filename) ==
    IF state_.verbose
    THEN IF state_.validateOnly THEN <<"validate">> ELSE <<"compile">>
    ELSE <<>>

(* Shell::Compile, lines 308-310: the reflection print-out. *)
ReflectionLines ==
    IF state_.showReflection THEN <<"reflection">> ELSE <<>>

(* Mutant of Compile: lastOutputFilename_ is not cleared at the start. *)
CompileKeepsLastOutputFilename ==
    /\ spc = "Compile"
    /\ LET filename == env.filename
           outputFilename == OutputFilename(filename)
       IN  IF ~env.readable
           THEN /\ output' = Append(output, "failed to read file")
                /\ UNCHANGED lastOutputFilename_
                /\ UNCHANGED files
           ELSE IF env.compiled = "throws"
           THEN /\ output' = (output \o StatusLines(filename)) \o <<"exception">>
                /\ UNCHANGED lastOutputFilename_
                /\ UNCHANGED files
           ELSE IF env.compiled = "true"
           THEN IF ~state_.validateOnly
                THEN IF env.writable
                     THEN /\ files' = files \cup {outputFilename}
                          /\ lastOutputFilename_' = outputFilename
                          /\ output' = ((output \o StatusLines(filename))
                                \o (IF state_.verbose THEN <<"compilation successful">> ELSE <<>>))
                                \o ReflectionLines
                     ELSE /\ output' = ((output \o StatusLines(filename))
                                \o (IF state_.verbose THEN <<"compilation successful">> ELSE <<>>))
                                \o <<"failed to write file">>
                          /\ UNCHANGED lastOutputFilename_
                          /\ UNCHANGED files
                ELSE /\ output' = ((output \o StatusLines(filename))
                           \o (IF state_.verbose THEN <<"validation successful">> ELSE <<>>))
                           \o ReflectionLines
                     /\ UNCHANGED lastOutputFilename_
                     /\ UNCHANGED files
           ELSE /\ output' = ((output \o StatusLines(filename))
                      \o (IF state_.validateOnly THEN <<"validation failed">>
                                                 ELSE <<"compilation failed">>))
                      \o ReflectionLines
                /\ UNCHANGED lastOutputFilename_
                /\ UNCHANGED files
    /\ state_' = [state_ EXCEPT !.filename = env.filename]
    /\ spc' = "returned"
    /\ UNCHANGED <<env, commandLineVars>>
    /\ UNCHANGED <<compilerVars, generatorVars, objectVars>>

(* Shell::Compile.  env.filename is the argument; env.readable and          *)
(* env.writable say whether the input and the output file can be opened;    *)
(* env.compiled is what CompileShader does: returns true or false, or       *)
(* throws a std::exception.                                                 *)
Compile ==
    /\ spc = "Compile"
    /\ LET filename == env.filename
           outputFilename == OutputFilename(filename)
       IN  IF ~env.readable
           THEN /\ output' = Append(output, "failed to read file")
                /\ lastOutputFilename_' = <<>>
                /\ UNCHANGED files
           ELSE IF env.compiled = "throws"
           THEN /\ output' = (output \o StatusLines(filename)) \o <<"exception">>
                /\ lastOutputFilename_' = <<>>
                /\ UNCHANGED files
           ELSE IF env.compiled = "true"
           THEN IF ~state_.validateOnly
                THEN IF env.writable
                     THEN /\ files' = files \cup {outputFilename}
                          /\ lastOutputFilename_' = outputFilename
                          /\ output' = ((output \o StatusLines(filename))
                                \o (IF state_.verbose THEN <<"compilation successful">> ELSE <<>>))
                                \o ReflectionLines
                     ELSE /\ output' = ((output \o StatusLines(filename))
                                \o (IF state_.verbose THEN <<"compilation successful">> ELSE <<>>))
                                \o <<"failed to write file">>
                          /\ lastOutputFilename_' = <<>>
                          /\ UNCHANGED files
                ELSE /\ output' = ((output \o StatusLines(filename))
                           \o (IF state_.verbose THEN <<"validation successful">> ELSE <<>>))
                           \o ReflectionLines
                     /\ lastOutputFilename_' = <<>>
                     /\ UNCHANGED files
           ELSE /\ output' = ((output \o StatusLines(filename))
                      \o (IF state_.validateOnly THEN <<"validation failed">>
                                                 ELSE <<"compilation failed">>))
                      \o ReflectionLines
                /\ lastOutputFilename_' = <<>>
                /\ UNCHANGED files
    /\ state_' = [state_ EXCEPT !.filename = env.filename]
    /\ spc' = "returned"
    /\ UNCHANGED <<env, commandLineVars>>
    /\ UNCHANGED <<compilerVars, generatorVars, objectVars>>

(* The command registry (CommandFactory and the commands are not among     *)
(* the sources): the output and entry commands read their value as the     *)
(* next argument, the define command has it attached to its name.          *)
Commands ==
    {[name |-> <<"-", "o">>, includesValue |-> FALSE, field |-> "outputFilename"],
     [name |-> <<"-", "E">>, includesValue |-> FALSE, field |-> "entryPoint"],
     [name |-> <<"-", "D">>, includesValue |-> TRUE, field |-> "predefinedMacros"]}

(* CommandFactory::Get: the commands whose identifier the argument names   *)
(* (none: a null pointer).  An identifier that includes its value matches  *)
(* the beginning of the argument, any other the whole argument.            *)
Get(cmdName) ==
    {cmd \in Commands :
        IF cmd.includesValue
        THEN Len(cmd.name) <= Len(cmdName) /\ SubSeq(cmdName, 1, Len(cmd.name)) = cmd.name
        ELSE cmdName = cmd.name}

(* CommandLine::Insert: the argument becomes the next one accepted. *)
Insert(args, argument) == <<argument>> \o args

(* Command::Run for a command with a value: CommandLine::Accept takes the  *)
(* next argument, which is stored in the field of the command.             *)
Run(cmd, args) ==
    IF cmd.field = "predefinedMacros"
    THEN [state_ EXCEPT !.predefinedMacros = Append(@, Head(args))]
    ELSE [state_ EXCEPT ![cmd.field] = Head(args)]

(* Mutant of CatchException: the exception leaves ExecuteCommandLine. *)
CatchExceptionRethrow(what) ==
    /\ epc' = "thrown"
    /\ UNCHANGED <<output, cmdResult>>

(* Shell::ExecuteCommandLine, lines 128-140: the catch block. *)
CatchException(what) ==
    /\ output' = output \o <<"exception thrown: ", what>>
    /\ epc' = "returned"
    /\ cmdResult' = "true"

(* Shell::ExecuteCommandLine, lines 64-75: an empty command line. *)
ExecuteCommandLine ==
    /\ epc = "ExecuteCommandLine"
    /\ IF cmdLine = <<>>
       THEN /\ epc' = "returned"
            /\ cmdResult' = IF enableBriefHelp THEN "true" ELSE "false"
            /\ output' = IF enableBriefHelp THEN Append(output, "help reference") ELSE output
       ELSE /\ epc' = "loop"
            /\ UNCHANGED <<cmdResult, output>>
    /\ UNCHANGED <<spc, state_, env, lastOutputFilename_, files, cmdLine, enableBriefHelp>>
    /\ UNCHANGED <<compilerVars, generatorVars, objectVars>>

(* Mutant of RunCommand: a command that includes its value takes the next  *)
(* argument when nothing is attached to its name.                          *)
RunCommandNextArgument ==
    /\ epc = "loop"
    /\ cmdLine # <<>>
    /\ Get(Head(cmdLine)) # {}
    /\ LET cmdName == Head(cmdLine)
           cmdIdent == CHOOSE cmd \in Get(cmdName) : TRUE
           attached == SubSeq(cmdName, Len(cmdIdent.name) + 1, Len(cmdName))
           args == IF cmdIdent.includesValue /\ Len(cmdName) > Len(cmdIdent.name)
                   THEN Insert(Tail(cmdLine), attached)
                   ELSE Tail(cmdLine)
       IN  IF args = <<>>
           THEN /\ CatchException("unexpected end of arguments")
                /\ cmdLine' = args
                /\ UNCHANGED state_
           ELSE /\ state_' = Run(cmdIdent, args)
                /\ cmdLine' = Tail(args)
                /\ UNCHANGED <<epc, cmdResult, output>>
    /\ UNCHANGED <<spc, env, lastOutputFilename_, files, enableBriefHelp>>
    /\ UNCHANGED <<compilerVars, generatorVars, objectVars>>

(* Shell::ExecuteCommandLine, lines 80-109: an argument that names a       *)
(* command.  The exceptions (a missing value, and CommandLine::Accept at   *)
(* the end of the command line) are caught at lines 128-140.               *)
RunCommand ==
    /\ epc = "loop"
    /\ cmdLine # <<>>
    /\ Get(Head(cmdLine)) # {}
    /\ LET cmdName == Head(cmdLine)
           cmdIdent == CHOOSE cmd \in Get(cmdName) : TRUE
           attached == SubSeq(cmdName, Len(cmdIdent.name) + 1, Len(cmdName))
           args == IF cmdIdent.includesValue
                   THEN Insert(Tail(cmdLine), attached)
                   ELSE Tail(cmdLine)
       IN  IF cmdIdent.includesValue /\ ~(Len(cmdName) > Len(cmdIdent.name))
           THEN /\ CatchException("missing value in command")
                /\ cmdLine' = Tail(cmdLine)
                /\ UNCHANGED state_
           ELSE IF args = <<>>
           THEN /\ CatchException("unexpected end of arguments")
                /\ cmdLine' = args
                /\ UNCHANGED state_
           ELSE /\ state_' = Run(cmdIdent, args)
                /\ cmdLine' = Tail(args)
                /\ UNCHANGED <<epc, cmdResult, output>>
    /\ UNCHANGED <<spc, env, lastOutputFilename_, files, enableBriefHelp>>
    /\ UNCHANGED <<compilerVars, generatorVars, objectVars>>

(* Shell::ExecuteCommandLine, lines 110-113: any other argument is the     *)
(* name of a file to compile; Shell::Compile is called with it.            *)
CompileArgument ==
    /\ epc = "loop"
    /\ cmdLine # <<>>
    /\ Get(Head(cmdLine)) = {}
    /\ \E readable \in BOOLEAN, writable \in BOOLEAN, compiled \in {"true", "false", "throws"} :
          env' = [filename |-> Head(cmdLine), readable |-> readable, writable |-> writable,
                  compiled |-> compiled]
    /\ cmdLine' = Tail(cmdLine)
    /\ spc' = "Compile"
    /\ epc' = "Compile"
    /\ UNCHANGED <<state_, lastOutputFilename_, files, output, enableBriefHelp, cmdResult>>
    /\ UNCHANGED <<compilerVars, generatorVars, objectVars>>

(* Mutant of ResetPerFileState: the entry point is kept. *)
ResetPerFileStateKeepEntry ==
    /\ epc = "Compile"
    /\ spc = "returned"
    /\ state_' = [state_ EXCEPT !.outputFilename = <<>>, !.actionPerformed = TRUE]
    /\ epc' = "loop"
    /\ UNCHANGED <<spc, env, lastOutputFilename_, files, output, cmdLine, enableBriefHelp,
                   cmdResult>>
    /\ UNCHANGED <<compilerVars, generatorVars, objectVars>>

(* Shell::ExecuteCommandLine, lines 115-118: after Compile has returned. *)
ResetPerFileState ==
    /\ epc = "Compile"
    /\ spc = "returned"
    /\ state_' = [state_ EXCEPT !.outputFilename = <<>>, !.entryPoint = <<>>,
                                !.actionPerformed = TRUE]
    /\ epc' = "loop"
    /\ UNCHANGED <<spc, env, lastOutputFilename_, files, output, cmdLine, enableBriefHelp,
                   cmdResult>>
    /\ UNCHANGED <<compilerVars, generatorVars, objectVars>>

(* Shell::ExecuteCommandLine, lines 120-126 and 140: the end of the        *)
(* command line.                                                           *)
EndOfCommandLine ==
    /\ epc = "loop"
    /\ cmdLine = <<>>
    /\ epc' = "returned"
    /\ cmdResult' = IF state_.actionPerformed THEN "true" ELSE "false"
    /\ UNCHANGED <<spc, state_, env, lastOutputFilename_, files, output, cmdLine,
                   enableBriefHelp>>
    /\ UNCHANGED <<compilerVars, generatorVars, objectVars>>

----------------------------------------------------------------------------
(* Shell.cpp, the earlier revision (src/unnamed/part_000) *)

(* ExtractFilename: the filename without its extension. *)
ExtractFilename(filename) ==
    LET pos == FindLastOf(filename, ".")
    IN  IF pos = 0 THEN filename ELSE SubSeq(filename, 1, pos - 1)

(* TargetToExtension of part_000, lines 131-143. *)
TargetToExtension_000(shaderTarget) ==
    CASE shaderTarget = "VertexShader" -> <<"v", "e", "r", "t">>
      [] shaderTarget = "TessellationControlShader" -> <<"t", "e", "s", "c">>
      [] shaderTarget = "TessellationEvaluationShader" -> <<"t", "e", "s", "e">>
      [] shaderTarget = "GeometryShader" -> <<"g", "e", "o", "m">>
      [] shaderTarget = "FragmentShader" -> <<"f", "r", "a", "g">>
      [] shaderTarget = "ComputeShader" -> <<"c", "o", "m", "p">>
      [] OTHER -> <<"g", "l", "s", "l">>

(* Shell::Compile of part_000, lines 147-156: the name of the output file. *)
OutputFilename_000(filename) ==
    IF state_.outputFilename = <<>>
    THEN (ExtractFilename(filename)
            \o (IF state_.entryPoint # <<>> THEN <<".">> \o state_.entryPoint ELSE <<>>))
            \o <<".">> \o TargetToExtension_000(state_.shaderTarget)
    ELSE state_.outputFilename

(* Shell::Compile of part_000, lines 217-218: ShowStats. *)
StatsLines == IF state_.dumpStats THEN <<"statistics:">> ELSE <<>>

(* Shell::Compile of part_000, lines 145-225. *)
Compile_000 ==
    /\ spc = "Compile_000"
    /\ LET filename == env.filename
           outputFilename == OutputFilename_000(filename)
       IN  IF ~env.readable
           THEN /\ output' = Append(output, "failed to read file")
                /\ UNCHANGED files
           ELSE IF env.compiled = "throws"
           THEN /\ output' = output \o <<"compile", "exception">>
                /\ UNCHANGED files
           ELSE IF env.compiled = "true"
           THEN IF env.writable
                THEN /\ files' = files \cup {outputFilename}
                     /\ output' = (output \o <<"compile", "translation successful">>)
                                        \o StatsLines
                ELSE /\ output' = output \o <<"compile", "translation successful",
                                              "failed to write file">>
                     /\ UNCHANGED files
           ELSE /\ output' = (output \o <<"compile">>) \o StatsLines
                /\ UNCHANGED files
    /\ state_' = [state_ EXCEPT !.filename = env.filename]
    /\ spc' = "returned_000"
    /\ UNCHANGED <<env, lastOutputFilename_, commandLineVars>>
    /\ UNCHANGED <<compilerVars, generatorVars, objectVars>>

(* ---- Shell::PushState and Shell::PopState (part_001:156-165) ----        *)
(* The callers of both are the commands of the shell, which save the state *)
(* around a nested command line; here a caller makes up to MaxCalls calls  *)
(* in any order, commands that change state_ among them.                   *)
Call(name) == [call |-> name, state |-> state_']

(* Shell::PushState, part_001:156-159.                                      *)
PushState ==
    /\ opc = "state stack"
    /\ Len(calls) < MaxCalls
    /\ stateStack_' = Append(stateStack_, state_)
    /\ UNCHANGED state_
    /\ calls' = Append(calls, Call("PushState"))
    /\ UNCHANGED <<opc, instance_, shells>>
    /\ UNCHANGED <<spc, env, lastOutputFilename_, files, output, commandLineVars>>
    /\ UNCHANGED <<compilerVars, generatorVars>>

(* What std::stack::top and pop on an empty stack may do: the behaviour is *)
(* undefined, so the call ends the process or leaves any state behind.     *)
UndefinedPop ==
    [opc : {"crashed", "state stack"},
     state : {state_} \cup {stateStack_[i] : i \in DOMAIN stateStack_}
             \cup {calls[i].state : i \in DOMAIN calls}]

PopStateFirst ==
    /\ opc = "state stack"
    /\ Len(calls) < MaxCalls
    /\ IF stateStack_ = <<>>
       THEN /\ \E next \in UndefinedPop :
                 /\ opc' = next.opc
                 /\ state_' = next.state
            /\ UNCHANGED stateStack_
            /\ calls' = Append(calls, Call("PopState on empty stack"))
       ELSE /\ state_' = Head(stateStack_)
            /\ stateStack_' = Tail(stateStack_)
            /\ calls' = Append(calls, Call("PopState"))
            /\ UNCHANGED opc
    /\ UNCHANGED <<instance_, shells>>
    /\ UNCHANGED <<spc, env, lastOutputFilename_, files, output, commandLineVars>>
    /\ UNCHANGED <<compilerVars, generatorVars>>

(* Shell::PopState, part_001:161-165: no test for an empty stack.           *)
PopState ==
    /\ opc = "state stack"
    /\ Len(calls) < MaxCalls
    /\ IF stateStack_ = <<>>
       THEN /\ \E next \in UndefinedPop :
                 /\ opc' = next.opc
                 /\ state_' = next.state
            /\ UNCHANGED stateStack_
            /\ calls' = Append(calls, Call("PopState on empty stack"))
       ELSE /\ state_' = stateStack_[Len(stateStack_)]
            /\ stateStack_' = SubSeq(stateStack_, 1, Len(stateStack_) - 1)
            /\ calls' = Append(calls, Call("PopState"))
            /\ UNCHANGED opc
    /\ UNCHANGED <<instance_, shells>>
    /\ UNCHANGED <<spc, env, lastOutputFilename_, files, output, commandLineVars>>
    /\ UNCHANGED <<compilerVars, generatorVars>>

(* The values a state-changing command is run with.                        *)
StateValues == {<<"m">>, <<"o">>}

(* A command that changes state_, run between the calls (Command::Run as   *)
(* ExecuteCommandLine calls it at part_001:108).                           *)
RunStateCommand ==
    /\ opc = "state stack"
    /\ Len(calls) < MaxCalls
    /\ \E cmd \in Commands, value \in StateValues :
         state_' = Run(cmd, <<value>>)
    /\ calls' = Append(calls, Call("Run"))
    /\ UNCHANGED <<opc, stateStack_, instance_, shells>>
    /\ UNCHANGED <<spc, env, lastOutputFilename_, files, output, commandLineVars>>
    /\ UNCHANGED <<compilerVars, generatorVars>>

(* ---- Shell::Shell, Shell::~Shell, Shell::Instance (part_001:46-62) ---- *)
ShellObjects == {"shell 1", "shell 2"}

(* Shell::Shell, part_001:48-52.                                            *)
ConstructShell ==
    /\ opc = "instances"
    /\ \E this \in ShellObjects \ shells :
         /\ shells' = shells \cup {this}
         /\ instance_' = this
    /\ UNCHANGED <<opc, stateStack_, calls>>
    /\ UNCHANGED <<spc, state_, env, lastOutputFilename_, files, output, commandLineVars>>
    /\ UNCHANGED <<compilerVars, generatorVars>>

(* Shell::~Shell, part_001:54-57.                                           *)
DestroyShell ==
    /\ opc = "instances"
    /\ \E this \in shells :
         /\ shells' = shells \ {this}
         /\ instance_' = "nullptr"
    /\ UNCHANGED <<opc, stateStack_, calls>>
    /\ UNCHANGED <<spc, state_, env, lastOutputFilename_, files, output, commandLineVars>>
    /\ UNCHANGED <<compilerVars, generatorVars>>

(* Shell::Instance, part_001:59-62.                                         *)
Instance == instance_

ShellNext ==
    \/ PushState
    \/ PopState
    \/ RunStateCommand
    \/ ConstructShell
    \/ DestroyShell
    \/ Compile
    \/ Compile_000
    \/ ExecuteCommandLine
    \/ RunCommand
    \/ CompileArgument
    \/ ResetPerFileState
    \/ EndOfCommandLine

----------------------------------------------------------------------------
(* Initial states *)

NoReflection == [present |-> FALSE, macros |-> "unset", reflected |-> FALSE]

CompilerCall(at, in, out, log, refl) ==
    /\ pc = at
    /\ inputDesc = in
    /\ outputDesc = out
    /\ log_ = log
    /\ reflectionData = [NoReflection EXCEPT !.present = refl]
    /\ outputDescCopy = [out EXCEPT !.sourceCode = "undefined"]
    /\ processedInput = Null
    /\ generatorResult = FALSE
    /\ sink = <<>>
    /\ dummyOutputStream = <<>>
    /\ reports = <<>>
    /\ trace = <<>>
    /\ result = "none"
    /\ exception = "none"

CompilerIdle ==
    CompilerCall("idle", [sourceCode |-> "stream", shaderVersion |-> "HLSL5", extensions |-> 0],
                    [sourceCode |-> "caller", shaderVersion |-> "GLSL",
                     options |-> [o \in OptionNames |-> FALSE],
                     nameMangling |-> Mangling(1, 1, 2, 3, 4)],
                    FALSE, FALSE)

(* The program whose statements have the given shapes, with the           *)
(* references E (pairs: statement i refers to declaration j) and the entry *)
(* point e (0: entryPointRef is null).                                     *)
Program(e, shapes, E) ==
    [entryPointRef |-> e,
     globalStmnts |-> [i \in 1..Len(shapes) |->
        DeclStmnt(shapes[i], Idents[i], {j \in 1..Len(shapes) : <<i, j>> \in E})]]

(* The empty program, and a function followed by a declaration of any      *)
(* shape that the function refers to or not; the function is the entry     *)
(* point, or there is none.                                                *)
SmallPrograms ==
    {Program(0, <<>>, {})} \cup
    {Program(e, << <<"FunctionDecl", "plain">>, shape >>, E) :
        e \in {0, 1}, shape \in StmntShapes, E \in {{}, {<<1, 2>>}}}

(* The shapes of the programs drawn for every reference graph. *)
GraphShapes == {<<"FunctionDecl", "plain">>, <<"StructDecl", "plain">>}

(* The literal strings of the scanner: digits with an optional fraction,   *)
(* exponent and suffix; and the empty string WriteLiteral tests for.       *)
LiteralValues ==
    {<<>>} \cup
    {((<<"1">> \o fraction) \o exponent) \o suffix :
        fraction \in {<<>>, <<".">>, <<".", "5">>},
        exponent \in {<<>>, <<"e", "1">>, <<"E", "1">>},
        suffix \in {<<>>, <<"f">>, <<"u">>, <<"U">>}}

NoLiteral == [value |-> <<>>, dataType |-> "Undefined", called |-> FALSE, text |-> <<>>]

(* A call of the procedure with the arguments, not yet made. *)
ProcCall(proc, args) ==
    [proc |-> proc, args |-> args, called |-> FALSE, text |-> <<>>, error |-> "none",
     warning |-> "none"]
NoCall == ProcCall("none", <<>>)

GeneratorCall(at, prog, in) ==
    /\ gpc = at
    /\ program = prog
    /\ genDesc = in
    /\ genEvents = <<>>
    /\ genOut = <<>>
    /\ genErrors = <<>>
    /\ genWarnings = <<>>
    /\ literal = NoLiteral
    /\ procCall = NoCall

GeneratorIdle ==
    GeneratorCall("idle", [entryPointRef |-> 0, globalStmnts |-> <<>>],
                  [entryPoint |-> "", shaderTarget |-> "Undefined", warnings |-> {}])

(* The arguments of the command lines: the commands, the define command   *)
(* and the output command with text attached, and two other words.         *)
Arguments == {<<"-", "o">>, <<"-", "E">>, <<"-", "D">>, <<"-", "D", "m">>,
              <<"-", "o", "m">>, <<"m">>, <<"a", ".", "h">>}

NoCommandLine ==
    /\ epc = "idle"
    /\ cmdLine = <<>>
    /\ enableBriefHelp = FALSE
    /\ cmdResult = "none"

NoObjectCalls ==
    /\ opc = "idle"
    /\ stateStack_ = <<>>
    /\ calls = <<>>
    /\ instance_ = "nullptr"
    /\ shells = {}

ShellCall(at, state, e, last) ==
    /\ NoObjectCalls
    /\ spc = at
    /\ state_ = state
    /\ env = e
    /\ lastOutputFilename_ = last
    /\ files = {}
    /\ output = <<>>

ShellIdle ==
    ShellCall("idle",
              [outputFilename |-> <<>>, entryPoint |-> <<>>, shaderTarget |-> "Undefined",
               filename |-> <<>>, validateOnly |-> FALSE, verbose |-> FALSE, showReflection |-> FALSE,
               predefinedMacros |-> <<>>, actionPerformed |-> FALSE],
              [filename |-> <<>>, readable |-> FALSE, writable |-> FALSE, compiled |-> "false"],
              <<>>)
    /\ NoCommandLine

(* A call of Compiler::CompileShader with every combination of options,    *)
(* streams, log and reflection argument.                                   *)
InitPipeline ==
    /\ \E in \in [sourceCode : {"null", "stream"}, shaderVersion : InputShaderVersions,
                  extensions : {0}],
          out \in [sourceCode : {"null", "caller"}, shaderVersion : OutputShaderVersions,
                   options : Options, nameMangling : PipelineManglings],
          log \in BOOLEAN, refl \in BOOLEAN :
            CompilerCall("CompileShader", in, out, log, refl)
    /\ GeneratorIdle
    /\ ShellIdle

(* A call of Compiler::CompileShader with every input shader version,      *)
(* with and without preprocessOnly and validateOnly.                       *)
InitVersions ==
    /\ \E shaderVersion \in InputShaderVersionEnum, preprocessOnly \in BOOLEAN,
          validateOnly \in BOOLEAN, nameMangling \in PipelineManglings, log \in BOOLEAN :
            CompilerCall("CompileShader",
                [sourceCode |-> "stream", shaderVersion |-> shaderVersion, extensions |-> 0],
                [sourceCode |-> "caller", shaderVersion |-> "GLSL",
                 options |-> [o \in OptionNames |->
                                IF o = "preprocessOnly" THEN preprocessOnly
                                ELSE IF o = "validateOnly" THEN validateOnly
                                ELSE FALSE],
                 nameMangling |-> nameMangling],
                log, TRUE)
    /\ GeneratorIdle
    /\ ShellIdle

(* A call of Compiler::CompileShader with every name mangling. *)
InitArguments ==
    /\ \E in \in [sourceCode : {"null", "stream"}, shaderVersion : {"HLSL5"},
                  extensions : {0, 1}],
          out \in [sourceCode : {"null", "caller"}, shaderVersion : {"GLSL"},
                   options : {[o \in OptionNames |-> FALSE]},
                   nameMangling : NameManglings] :
            CompilerCall("CompileShader", in, out, TRUE, TRUE)
    /\ GeneratorIdle
    /\ ShellIdle

(* A call of HLSLGenerator::GenerateCodePrimary with every entry point     *)
(* name and shader target, for the small programs.                         *)
InitGenerator ==
    /\ CompilerIdle
    /\ \E prog \in SmallPrograms,
          in \in [entryPoint : {"", "main"}, shaderTarget : ShaderTargets, warnings : {{}}] :
            GeneratorCall("GenerateCodePrimary", prog, in)
    /\ ShellIdle

(* A call of HLSLGenerator::GenerateCodePrimary for the programs of up to  *)
(* MaxStmnts functions and structures, with every set of at most MaxRefs   *)
(* references between them (cycles included) and every function as entry   *)
(* point.                                                                  *)
InitPrograms ==
    /\ CompilerIdle
    /\ \E n \in 1..MaxStmnts :
        \E shapes \in [1..n -> GraphShapes], E \in SUBSET ((1..n) \X (1..n)), e \in 1..n :
            /\ Cardinality(E) <= MaxRefs
            /\ shapes[e][1] = "FunctionDecl"
            /\ GeneratorCall("GenerateCodePrimary", Program(e, shapes, E),
                             [entryPoint |-> "main", shaderTarget |-> "VertexShader",
                              warnings |-> {}])
    /\ ShellIdle

(* A call of HLSLGenerator::WriteLiteral. *)
InitLiteral ==
    /\ CompilerIdle
    /\ gpc = "WriteLiteral"
    /\ program = [entryPointRef |-> 0, globalStmnts |-> <<>>]
    /\ genDesc = [entryPoint |-> "", shaderTarget |-> "Undefined", warnings |-> {}]
    /\ genEvents = <<>>
    /\ genOut = <<>>
    /\ genErrors = <<>>
    /\ genWarnings = <<>>
    /\ literal \in [value : LiteralValues, dataType : DataTypes, called : {FALSE},
                     text : {<<>>}]
    /\ procCall = NoCall
    /\ ShellIdle

(* The enabled warning classes of the input descriptor. *)
WarningSets == {{}, {"Basic"}, {"Syntax"}, {"Basic", "Syntax"}}

(* A call of a procedure of the generator on its own. *)
GeneratorProcCall(at, in, args) ==
    /\ CompilerIdle
    /\ gpc = at
    /\ program = [entryPointRef |-> 0, globalStmnts |-> <<>>]
    /\ genDesc = in
    /\ genEvents = <<>>
    /\ genOut = <<>>
    /\ genErrors = <<>>
    /\ genWarnings = <<>>
    /\ literal = NoLiteral
    /\ procCall = ProcCall(at, args)
    /\ ShellIdle

(* A call of HLSLGenerator::VisitFunctionDecl for a function with every    *)
(* combination of its flags and every set of enabled warnings.             *)
InitFunctionDecl ==
    \E detail \in {"plain", "hasNonReturnControlPath"}, reachable \in BOOLEAN,
       declReachable \in BOOLEAN, warnings \in WarningSets :
        GeneratorProcCall("VisitFunctionDecl",
            [entryPoint |-> "main", shaderTarget |-> "VertexShader", warnings |-> warnings],
            [DeclStmnt(<<"FunctionDecl", detail>>, "d1", {})
                EXCEPT !.reachable = reachable, !.declReachable = declReachable])

(* A call of Shell::Compile. *)
InitShell ==
    /\ CompilerIdle
    /\ GeneratorIdle
    /\ \E state \in [outputFilename : OutputFilenames, entryPoint : EntryPoints,
                      shaderTarget : ShaderTargets, filename : {<<>>},
                      validateOnly : BOOLEAN, verbose : BOOLEAN, showReflection : BOOLEAN,
                      predefinedMacros : {<<>>}, actionPerformed : {FALSE}],
          e \in [filename : Filenames, readable : BOOLEAN, writable : BOOLEAN,
                 compiled : {"true", "false", "throws"}],
          last \in {<<>>, <<"o">>} :
            ShellCall("Compile", state, e, last)
    /\ NoCommandLine

(* A call of Shell::Compile of the earlier revision, whose state has the   *)
(* dumpStats option.                                                       *)
InitShell_000 ==
    /\ CompilerIdle
    /\ GeneratorIdle
    /\ \E state \in [outputFilename : OutputFilenames, entryPoint : EntryPoints,
                      shaderTarget : ShaderTargets, filename : {<<>>},
                      validateOnly : {FALSE}, verbose : BOOLEAN, showReflection : {FALSE},
                      predefinedMacros : {<<>>}, actionPerformed : {FALSE},
                      dumpStats : BOOLEAN],
          e \in [filename : Filenames, readable : BOOLEAN, writable : BOOLEAN,
                 compiled : {"true", "false", "throws"}] :
            ShellCall("Compile_000", state, e, <<>>)
    /\ NoCommandLine

(* A call of Shell::ExecuteCommandLine with every command line of up to    *)
(* MaxArgs arguments, on a shell in its initial state.                     *)
InitCommandLine ==
    /\ CompilerIdle
    /\ GeneratorIdle
    /\ ShellCall("idle",
                 [outputFilename |-> <<>>, entryPoint |-> <<>>, shaderTarget |-> "Undefined",
                  filename |-> <<>>, validateOnly |-> FALSE, verbose |-> FALSE,
                  showReflection |-> FALSE, predefinedMacros |-> <<>>,
                  actionPerformed |-> FALSE],
                 [filename |-> <<>>, readable |-> FALSE, writable |-> FALSE,
                  compiled |-> "false"],
                 <<>>)
    /\ epc = "ExecuteCommandLine"
    /\ \E n \in 0..MaxArgs : cmdLine \in [1..n -> Arguments]
    /\ enableBriefHelp \in BOOLEAN
    /\ cmdResult = "none"

(* A Shell right after construction whose PushState, PopState and commands *)
(* are called in any order.                                                *)
InitStateStack ==
    /\ CompilerIdle
    /\ GeneratorIdle
    /\ spc = "idle"
    /\ state_ = [outputFilename |-> <<>>, entryPoint |-> <<>>, shaderTarget |-> "Undefined",
                 filename |-> <<>>, validateOnly |-> FALSE, verbose |-> FALSE,
                 showReflection |-> FALSE, predefinedMacros |-> <<>>,
                 actionPerformed |-> FALSE]
    /\ env = [filename |-> <<>>, readable |-> FALSE, writable |-> FALSE, compiled |-> "false"]
    /\ lastOutputFilename_ = <<>>
    /\ files = {}
    /\ output = <<>>
    /\ NoCommandLine
    /\ opc = "state stack"
    /\ stateStack_ = <<>>
    /\ calls = <<>>
    /\ instance_ = "nullptr"
    /\ shells = {}

(* No Shell constructed yet (part_001:46); Shells are then constructed and *)
(* destroyed in any order.                                                 *)
InitInstances ==
    /\ CompilerIdle
    /\ GeneratorIdle
    /\ spc = "idle"
    /\ state_ = [outputFilename |-> <<>>, entryPoint |-> <<>>, shaderTarget |-> "Undefined",
                 filename |-> <<>>, validateOnly |-> FALSE, verbose |-> FALSE,
                 showReflection |-> FALSE, predefinedMacros |-> <<>>,
                 actionPerformed |-> FALSE]
    /\ env = [filename |-> <<>>, readable |-> FALSE, writable |-> FALSE, compiled |-> "false"]
    /\ lastOutputFilename_ = <<>>
    /\ files = {}
    /\ output = <<>>
    /\ NoCommandLine
    /\ opc = "instances"
    /\ stateStack_ = <<>>
    /\ calls = <<>>
    /\ instance_ = "nullptr"
    /\ shells = {}

(* The characters of a comment text and the texts WriteComment is called   *)
(* with: every text of up to MaxTextLen characters.                        *)
Chars == {"a", "\n"}
Texts == UNION {[1..n -> Chars] : n \in 0..MaxTextLen}

(* A call of WriteComment (HLSLGenerator.cpp:735-737): start = 0, end = 0. *)
InitComment ==
    \E text \in Texts :
        GeneratorProcCall("WriteComment",
            [entryPoint |-> "main", shaderTarget |-> "VertexShader", warnings |-> {}],
            [text |-> text, start |-> 0, end |-> 0])

(* The text that visiting each explicit argument and each default argument *)
(* of a call writes.                                                       *)
ArgumentTexts == <<"a0", "a1", "a2", "a3">>
DefaultArgumentTexts == <<"d0", "d1", "d2", "d3">>

(* A call of WriteCallExprArguments (HLSLGenerator.cpp:1155) for a call    *)
(* expression with up to MaxCallArgs explicit and up to MaxCallArgs        *)
(* default arguments, with every firstArgIndex and numWriteArgs.           *)
InitCallExpr ==
    \E n \in 0..MaxCallArgs, d \in 0..MaxCallArgs,
       firstArgIndex \in 0..SizeMax, numWriteArgs \in 0..SizeMax :
        GeneratorProcCall("WriteCallExprArguments",
            [entryPoint |-> "main", shaderTarget |-> "VertexShader", warnings |-> {}],
            [callExpr |-> [arguments |-> SubSeq(ArgumentTexts, 1, n),
                           defaultArgumentRefs |-> SubSeq(DefaultArgumentTexts, 1, d)],
             firstArgIndex |-> firstArgIndex,
             numWriteArgs |-> numWriteArgs])

Init ==
    \/ InitCallExpr
    \/ InitComment
    \/ InitStateStack
    \/ InitInstances
    \/ InitPipeline
    \/ InitVersions
    \/ InitArguments
    \/ InitGenerator
    \/ InitLiteral
    \/ InitFunctionDecl
    \/ InitShell
    \/ InitShell_000
    \/ InitCommandLine

Next == CompilerNext \/ GeneratorNext \/ ShellNext

Spec == Init /\ [][Next]_vars

(* The generator alone, on every program within the bounds. *)
SpecGenerator ==
    (InitPrograms \/ InitGenerator \/ InitLiteral \/ InitFunctionDecl \/ InitComment
     \/ InitCallExpr)
        /\ [][GeneratorNext]_vars

----------------------------------------------------------------------------
(* Vocabulary of the properties *)

Called == pc # "idle"
Finished == pc \in {"returned", "thrown", "crashed"}
(* ValidateArguments returned without throwing. *)
Validated == pc \in {"PreProcess", "Parse", "Analyze", "Optimize", "Generate", "Reflect",
                     "crashed"} \/ trace # <<>>
(* The feature check of CompileShader let the call through. *)
PassedFeatureCheck == outputDescCopy.sourceCode # "undefined"

HasErrorReport == \E i \in 1..Len(reports) : reports[i].type = "Error"
(* The messages of the errors the compiler itself submits. *)
CompilerErrors == {R_OnlyPreProcessingForNonHLSL, R_PreProcessingSourceFailed,
                   R_ParsingSourceFailed, R_AnalyzingSourceFailed,
                   R_GeneratingOutputCodeFailed}
HasCompilerError ==
    \E i \in 1..Len(reports) : reports[i].type = "Error" /\ reports[i].msg \in CompilerErrors
StageNames == [i \in 1..Len(trace) |-> trace[i].stage]
ReflectionUntouched == reflectionData.macros = "unset" /\ ~reflectionData.reflected

PrefixPairs == {pair \in SUBSET PrefixNames : Cardinality(pair) = 2}
EqualPairs(nameMngl) ==
    {pair \in PrefixPairs : \A a \in pair, b \in pair : nameMngl[a] = nameMngl[b]}
(* The equal pairs ValidateArguments lets pass: input = output, and an     *)
(* empty namespace prefix equal to an empty input or output prefix.        *)
ToleratedPairs(nameMngl) ==
    {pair \in PrefixPairs :
        \/ pair = {"inputPrefix", "outputPrefix"}
        \/ "namespacePrefix" \in pair /\ nameMngl.namespacePrefix = <<>>}
Overlapping(nameMngl) == EqualPairs(nameMngl) \ ToleratedPairs(nameMngl) # {}
EmptyRequired(nameMngl) ==
    nameMngl.reservedWordPrefix = <<>> \/ nameMngl.temporaryPrefix = <<>>
StreamsGiven == inputDesc.sourceCode # "null" /\ outputDescCopy.sourceCode # "null"

----------------------------------------------------------------------------
(* C1: with validateOnly set, CompileShader never writes a byte to the     *)
(* caller's output stream, whatever the other options and whatever the     *)
(* outcome, and Shell::Compile writes no output file.                      *)
C1_ValidateOnlyNeverWrites ==
    /\ Called /\ outputDesc.options.validateOnly => sink = <<>>
    /\ spc # "idle" /\ state_.validateOnly => files = {}

(* A validate-only compilation whose generator wrote text and that returned true. *)
C1_Witness ==
    /\ pc = "returned" /\ result = "true"
    /\ outputDesc.options.validateOnly
    /\ outputDesc.sourceCode = "caller"
    /\ dummyOutputStream # <<>>
    /\ "Generator" \in {trace[i].stage : i \in 1..Len(trace)}

(* C2: the descriptor the pipeline works on has explicitBinding set        *)
(* whenever autoBinding is set; explicitBinding is the caller's value      *)
(* otherwise, and no other option differs from the caller's.               *)
C2_AutoBindingImpliesExplicit ==
    Called /\ PassedFeatureCheck =>
        /\ outputDescCopy.options.autoBinding => outputDescCopy.options.explicitBinding
        /\ outputDescCopy.options.explicitBinding =
              (outputDesc.options.explicitBinding \/ outputDesc.options.autoBinding)
        /\ \A o \in OptionNames \ {"explicitBinding"} :
              outputDescCopy.options[o] = outputDesc.options[o]
        /\ outputDescCopy.nameMangling = outputDesc.nameMangling
        /\ outputDescCopy.shaderVersion = outputDesc.shaderVersion

(* autoBinding without explicitBinding on entry, and a stage has run. *)
C2_Witness ==
    /\ trace # <<>>
    /\ outputDesc.options.autoBinding /\ ~outputDesc.options.explicitBinding
    /\ outputDescCopy.options.explicitBinding

(* C3, as claimed: a name mangling passes ValidateArguments only if its    *)
(* five prefixes are pairwise distinct.                                    *)
C3_PairwiseDistinctAsClaimed ==
    Called /\ Validated => EqualPairs(outputDescCopy.nameMangling) = {}

(* C3, amended: a name mangling passes ValidateArguments only if no two    *)
(* prefixes are equal, other than the input and output prefix and an empty *)
(* namespace prefix; the overlap error is raised only for such a pair, and *)
(* after an argument error no stage has run.                               *)
C3_OverlapRejected ==
    /\ Called /\ Validated => ~Overlapping(outputDescCopy.nameMangling)
    /\ pc = "thrown" /\ exception = R_OverlappingNameManglingPrefixes =>
          Overlapping(outputDescCopy.nameMangling)
    /\ pc = "thrown" /\ StreamsGiven /\ ~EmptyRequired(outputDescCopy.nameMangling) =>
          exception = R_OverlappingNameManglingPrefixes
    /\ pc = "thrown" => trace = <<>> /\ result = "none"

(* The overlap error for a mangling whose only equal pair is namespace = temporary. *)
C3_Witness ==
    /\ pc = "thrown" /\ exception = R_OverlappingNameManglingPrefixes
    /\ EqualPairs(outputDescCopy.nameMangling) = {{"namespacePrefix", "temporaryPrefix"}}

(* C4: an empty reservedWord or temporary prefix raises an argument error  *)
(* that is never the overlap error (with both streams given it is the      *)
(* prefix's own emptiness error); emptiness of the input, output or        *)
(* namespace prefix raises nothing: a mangling whose non-empty prefixes    *)
(* are pairwise distinct and whose reservedWord and temporary prefix are   *)
(* non-empty passes.                                                       *)
C4_EmptyPrefixes ==
    LET nameMngl == outputDescCopy.nameMangling
        nonEmpty == {a \in PrefixNames : nameMngl[a] # <<>>}
    IN  Called /\ PassedFeatureCheck /\ pc # "ValidateArguments" =>
          /\ EmptyRequired(nameMngl) =>
                /\ pc = "thrown"
                /\ exception # R_OverlappingNameManglingPrefixes
          /\ StreamsGiven /\ nameMngl.reservedWordPrefix = <<>> =>
                exception = R_NameManglingPrefixResCantBeEmpty
          /\ StreamsGiven /\ nameMngl.reservedWordPrefix # <<>>
                /\ nameMngl.temporaryPrefix = <<>> =>
                exception = R_NameManglingPrefixTmpCantBeEmpty
          /\ /\ StreamsGiven
             /\ ~EmptyRequired(nameMngl)
             /\ \A a \in nonEmpty, b \in nonEmpty : a # b => nameMngl[a] # nameMngl[b]
             => exception = "none" /\ pc # "thrown"

(* An empty temporary prefix that equals the (empty) input prefix is       *)
(* reported as empty, not as an overlap.                                   *)
C4_Witness ==
    /\ pc = "thrown" /\ exception = R_NameManglingPrefixTmpCantBeEmpty
    /\ outputDescCopy.nameMangling.temporaryPrefix = <<>>
    /\ outputDescCopy.nameMangling.inputPrefix = <<>>

(* The descriptors ValidateArguments rejects. *)
InvalidDescriptor ==
    \/ inputDesc.sourceCode = "null"
    \/ outputDesc.sourceCode = "null" /\ ~outputDesc.options.validateOnly
    \/ EmptyRequired(outputDesc.nameMangling)
    \/ Overlapping(outputDesc.nameMangling)

(* C5, as claimed: no call leaves CompileShader by an exception; a failed  *)
(* call returns false.                                                     *)
C5_NoExceptionAsClaimed ==
    Called /\ Finished => exception = "none" /\ result \in {"true", "false"}

(* C5, amended: a call that fails in the language check or in a stage      *)
(* returns false with an Error report in the log (when one was supplied);  *)
(* a call with an invalid descriptor that passes the language check leaves *)
(* CompileShader by the std::invalid_argument of ValidateArguments, with   *)
(* no return value and no report submitted.                                *)
C5_ArgumentErrorsAreThrown ==
    /\ pc = "thrown" =>
          /\ InvalidDescriptor
          /\ exception \in {R_InputStreamCantBeNull, R_OutputStreamCantBeNull,
                            R_NameManglingPrefixResCantBeEmpty,
                            R_NameManglingPrefixTmpCantBeEmpty,
                            R_OverlappingNameManglingPrefixes}
          /\ result = "none"
          /\ reports = <<>>
    /\ pc = "returned" =>
          /\ exception = "none"
          /\ result \in {"true", "false"}
          /\ PassedFeatureCheck => ~InvalidDescriptor
          /\ result = "false" /\ log_ =>
                reports # <<>> /\ reports[Len(reports)].type = "Error"

(* A null input stream: the call is left by the exception, the log is empty. *)
C5_Witness ==
    /\ pc = "thrown" /\ exception = R_InputStreamCantBeNull
    /\ inputDesc.sourceCode = "null"
    /\ log_ /\ reports = <<>>

(* C6, as claimed: a descriptor with a null input stream, a null output    *)
(* stream or empty or overlapping prefixes never gets a stage run, its     *)
(* sink written or its reflection data touched, whatever the options.      *)
C6_InvalidRejectedAsClaimed ==
    (Called /\ (InvalidDescriptor \/ outputDesc.sourceCode = "null")) =>
        /\ trace = <<>>
        /\ sink = <<>>
        /\ ReflectionUntouched

(* C6, amended: the same, where a null output stream makes the descriptor  *)
(* invalid only when validateOnly is not set (in validate-only mode the    *)
(* null stream is replaced before validation and the pipeline runs).       *)
C6_InvalidRejectedFirst ==
    Called /\ InvalidDescriptor =>
        /\ trace = <<>>
        /\ sink = <<>> /\ dummyOutputStream = <<>>
        /\ ReflectionUntouched
        /\ pc \in {"CompileShader", "ValidateArguments", "thrown", "returned"}
        /\ pc = "returned" => ~PassedFeatureCheck

(* A null output stream without validateOnly, reflection requested: rejected. *)
C6_Witness ==
    /\ pc = "thrown" /\ exception = R_OutputStreamCantBeNull
    /\ outputDesc.sourceCode = "null" /\ ~outputDesc.options.validateOnly
    /\ reflectionData.present
    /\ outputDesc.options.preprocessOnly

(* C7, as claimed: no stage runs after a stage that failed. *)
C7_NoStageAfterFailureAsClaimed ==
    \A i \in 1..Len(trace) : ~trace[i].ok => i = Len(trace)

(* C7, amended: after a failed pre-processor or parser nothing runs; after *)
(* a failed analysis only the AST printer runs; after a failed code        *)
(* generation only the reflection extractor runs; and the call then        *)
(* returns false.                                                          *)
C7_StagesAfterFailure ==
    /\ \A i \in 1..Len(trace) :
          ~trace[i].ok /\ i < Len(trace) =>
              /\ i + 1 = Len(trace)
              /\ \/ trace[i].stage = "Analyzer" /\ trace[i + 1].stage = "ASTPrinter"
                 \/ trace[i].stage = "Generator" /\ trace[i + 1].stage = "ReflectionAnalyzer"
    /\ pc = "returned" /\ (\E i \in 1..Len(trace) : ~trace[i].ok) => result = "false"
    /\ (\E i \in 1..Len(trace) : ~trace[i].ok /\ trace[i].stage # "Generator") =>
          pc = "returned"

(* A failed parse with AST printing, optimizer and reflection requested:   *)
(* the parser is the last stage.                                           *)
C7_Witness ==
    /\ pc = "returned"
    /\ StageNames = <<"PreProcessor", "Parser">>
    /\ ~trace[2].ok
    /\ outputDesc.options.showAST /\ log_
    /\ outputDesc.options.optimize
    /\ reflectionData.present

Rank(stage) ==
    CASE stage = "PreProcessor" -> 1
      [] stage = "Parser" -> 2
      [] stage = "Analyzer" -> 3
      [] stage = "ASTPrinter" -> 3
      [] stage = "Optimizer" -> 4
      [] stage = "Generator" -> 5
      [] stage = "ReflectionAnalyzer" -> 6
IsPipelineStage(s) == s.stage # "ASTPrinter"
PipelineStages == SelectSeq(trace, IsPipelineStage)
IsTransformer(e) ==
    e \in {"StructParameterAnalyzer", "FuncNameConverter", "ReferenceAnalyzer"}
IsPrefix(s, t) == Len(s) <= Len(t) /\ s = SubSeq(t, 1, Len(s))
StagesInOrder ==
    /\ \A i \in 1..Len(PipelineStages), j \in 1..Len(PipelineStages) :
          i < j => Rank(PipelineStages[i].stage) < Rank(PipelineStages[j].stage)
    /\ \A i \in 1..Len(PipelineStages) :
          PipelineStages[i].stage = "Optimizer" => outputDesc.options.optimize
TransformersBeforeOutput ==
    /\ IsPrefix(SelectSeq(genEvents, IsTransformer),
                <<"StructParameterAnalyzer", "FuncNameConverter", "ReferenceAnalyzer">>)
    /\ genOut # <<>> \/ (\E i \in 1..Len(genEvents) : ~IsTransformer(genEvents[i])) =>
          IsPrefix(<<"StructParameterAnalyzer", "FuncNameConverter", "ReferenceAnalyzer">>,
                   genEvents)

(* C8, as claimed: the stages start in the order pre-process, parse,       *)
(* analyze, optimize, generate, reflect, each at most once and each only   *)
(* after the one before it succeeded; the generator's transformers run in  *)
(* their order before any output is written.                               *)
C8_StageOrderAsClaimed ==
    /\ StagesInOrder
    /\ \A i \in 1..Len(PipelineStages) : i < Len(PipelineStages) => PipelineStages[i].ok
    /\ TransformersBeforeOutput

(* C8, amended: the same, except that the reflection extractor starts      *)
(* after the generator has returned, whether it succeeded or failed.       *)
C8_StageOrder ==
    /\ StagesInOrder
    /\ \A i \in 1..Len(PipelineStages) :
          i < Len(PipelineStages) /\ ~PipelineStages[i].ok =>
              /\ PipelineStages[i].stage = "Generator"
              /\ PipelineStages[i + 1].stage = "ReflectionAnalyzer"
    /\ TransformersBeforeOutput

(* A complete run: every stage ran, in order, and the call returned true. *)
C8_Witness ==
    /\ pc = "returned" /\ result = "true"
    /\ StageNames = <<"PreProcessor", "Parser", "Analyzer", "ASTPrinter", "Optimizer",
                      "Generator", "ReflectionAnalyzer">>

(* C9: with preprocessOnly, a successful pre-processing writes exactly the *)
(* pre-processed stream to the descriptor's stream and returns true, a     *)
(* failed one writes nothing and returns false, and no other stage runs.   *)
C9_PreprocessOnly ==
    Called /\ outputDesc.options.preprocessOnly =>
        /\ pc \in {"CompileShader", "ValidateArguments", "PreProcess", "returned", "thrown"}
        /\ \A i \in 1..Len(trace) : trace[i].stage = "PreProcessor"
        /\ Len(trace) <= 1
        /\ ~reflectionData.reflected
        /\ trace # <<>> =>
              /\ pc = "returned"
              /\ IF trace[1].ok
                 THEN /\ result = "true"
                      /\ processedInput # Null
                      /\ IF outputDesc.options.validateOnly
                         THEN sink = <<>> /\ dummyOutputStream = Deref(processedInput)
                         ELSE sink = Deref(processedInput) /\ dummyOutputStream = <<>>
                      /\ reports = <<>>
                 ELSE /\ result = "false"
                      /\ sink = <<>> /\ dummyOutputStream = <<>>

(* Pre-process only, success: the longest stream is in the caller's sink. *)
C9_Witness ==
    /\ pc = "returned" /\ result = "true"
    /\ outputDesc.options.preprocessOnly /\ ~outputDesc.options.validateOnly
    /\ Len(sink) = MaxStreamLen
    /\ inputDesc.shaderVersion = "GLSL"

(* C10: a call that returned false has submitted an Error report to the    *)
(* log when a log was supplied; a call that returned true has submitted    *)
(* none; without a log nothing is submitted.                               *)
C10_ErrorReports ==
    /\ pc = "returned" /\ result = "false" /\ log_ => HasErrorReport
    /\ pc = "returned" /\ result = "true" => ~HasErrorReport
    /\ Called /\ ~log_ => reports = <<>>
    /\ Called /\ pc \notin {"returned"} => ~HasCompilerError

(* A failed code generation: false is returned and the error is in the log. *)
C10_Witness ==
    /\ pc = "returned" /\ result = "false" /\ log_
    /\ reports = <<Report("Error", R_GeneratingOutputCodeFailed)>>
    /\ outputDesc.shaderVersion = "HLSL"

----------------------------------------------------------------------------
(* Vocabulary of the generator's properties *)

(* Declaration text carrying the identifier was written to the output. *)
Emitted(ident) ==
    \E l \in 1..Len(genOut) : Len(genOut[l]) = 2 /\ genOut[l][2] = ident
Declarations == 1..Len(program.globalStmnts)
(* The reference analyzer has run and returned. *)
ReferencesMarked ==
    \E k \in 1..Len(genEvents) :
        genEvents[k] = "ReferenceAnalyzer" /\ (k < Len(genEvents) \/ gpc # "thrown")
(* The declarations reachable from the entry point over the references,    *)
(* as the limit of the sets reachable in at most k steps.                  *)
ReachableFromEntryPoint ==
    LET n == Len(program.globalStmnts)
        within[k \in 0..n] ==
            IF k = 0 THEN {program.entryPointRef}
            ELSE within[k - 1] \cup
                 UNION {program.globalStmnts[i].refs : i \in within[k - 1]}
    IN  within[n]
(* Output text has been written: emission has begun. *)
EmissionBegun == genOut # <<>>

(* C11, as claimed: text for a global declaration statement is in the      *)
(* output only if the statement is flagged isReachable.                    *)
C11_NoUnreachableEmittedAsClaimed ==
    \A i \in Declarations :
        Emitted(program.globalStmnts[i].ident) => program.globalStmnts[i].reachable

(* C12: once MarkReferencesFromEntryPoint has returned, a declaration is   *)
(* flagged reachable exactly if it is reachable from the entry point over  *)
(* the references, cyclic ones included.                                   *)
C12_FlaggedIsReachable ==
    gpc # "idle" /\ gpc # "WriteLiteral" /\ ReferencesMarked =>
        \A i \in Declarations :
            /\ program.globalStmnts[i].reachable <=> i \in ReachableFromEntryPoint
            /\ program.globalStmnts[i].declReachable <=> i \in ReachableFromEntryPoint

(* Three declarations: the entry point refers to the second, the second to *)
(* the third and the third back to the second; all three are flagged.      *)
C12_Witness ==
    /\ gpc = "returned"
    /\ Len(program.globalStmnts) = 3
    /\ program.entryPointRef = 1
    /\ program.globalStmnts[1].refs = {2}
    /\ program.globalStmnts[2].refs = {3}
    /\ program.globalStmnts[3].refs = {2}
    /\ \A i \in Declarations : program.globalStmnts[i].reachable

(* C13, as claimed: from the first write of output text on, no step        *)
(* changes the AST.                                                        *)
C13_EmissionKeepsASTAsClaimed ==
    [][EmissionBegun => program' = program]_vars


----------------------------------------------------------------------------
(* Vocabulary of C14 and C20 *)

AllStagesSucceeded == trace # <<>> /\ \A i \in 1..Len(trace) : trace[i].ok
(* The parser found a syntax error in the input. *)
SyntaxError == \E i \in 1..Len(trace) : trace[i] = Stage("Parser", FALSE)
ErrorReports == {i \in 1..Len(reports) : reports[i].type = "Error"}

(* C14, as claimed: compiling an HLSL input to HLSL output succeeds (the   *)
(* first half of the round trip: every stage that ran succeeded, so the    *)
(* call returns true and the text can be compiled again).                  *)
C14_RoundTripSucceedsAsClaimed ==
    /\ pc = "returned"
    /\ IsLanguageHLSL(inputDesc.shaderVersion) /\ outputDesc.shaderVersion = "HLSL"
    /\ ~outputDesc.options.preprocessOnly
    /\ AllStagesSucceeded
    => result = "true"

(* C20, as claimed: with validateOnly set and a log supplied, a syntax     *)
(* error makes CompileShader return false with exactly one error report   *)
(* in the log and the caller's output stream untouched.                    *)
C20_OneErrorReportAsClaimed ==
    Finished /\ SyntaxError /\ outputDesc.options.validateOnly /\ log_
    => /\ pc = "returned" /\ result = "false"
       /\ Cardinality(ErrorReports) = 1
       /\ sink = <<>>

(* C20, amended: with validateOnly set, a syntax error makes CompileShader *)
(* return false with the caller's output stream untouched; when a log was  *)
(* supplied the compiler itself submits exactly one error report,          *)
(* R_ParsingSourceFailed, as the last report, after the reports of the     *)
(* parser; without a log nothing is recorded.                              *)
C20_SyntaxErrorValidateOnly ==
    Finished /\ SyntaxError /\ outputDesc.options.validateOnly
    => /\ pc = "returned" /\ result = "false"
       /\ sink = <<>>
       /\ IF log_
          THEN /\ reports # <<>>
               /\ reports[Len(reports)] = Report("Error", R_ParsingSourceFailed)
               /\ \A i \in 1..(Len(reports) - 1) : reports[i].msg \notin CompilerErrors
               /\ Cardinality(ErrorReports) \in 1..(1 + MaxDiagnostics)
          ELSE reports = <<>>

(* A validate-only call whose parser reported two syntax errors: three     *)
(* error reports are in the log.                                           *)
C20_Witness ==
    /\ pc = "returned" /\ result = "false"
    /\ outputDesc.options.validateOnly /\ log_
    /\ SyntaxError
    /\ reports = <<Report("Error", "SyntaxError"), Report("Error", "SyntaxError"),
                   Report("Error", R_ParsingSourceFailed)>>
    /\ sink = <<>>

----------------------------------------------------------------------------
(* Vocabulary of C19 *)

(* WriteLiteral was called and has returned or raised its error. *)
LiteralWritten == literal.called
(* The characters the call wrote. *)
LiteralText == literal.text
Contains(text, c) == \E i \in 1..Len(text) : text[i] = c
EndsIn(text, suffixes) == text # <<>> /\ text[Len(text)] \in suffixes
(* The text ends in exactly one of the suffix characters. *)
EndsInOne(text, suffixes) ==
    /\ EndsIn(text, suffixes)
    /\ ~EndsIn(SubSeq(text, 1, Len(text) - 1), suffixes)
ConstructorCall(dataType, value) == ((<<dataType>> \o <<"(">>) \o value) \o <<")">>
LiteralRejected ==
    gpc = "thrown" /\ genErrors = <<"R_FailedToWriteLiteralType">> /\ LiteralText = <<>>

(* C19, as claimed: a Float literal is written with a decimal point and    *)
(* exactly one f suffix, a UInt literal with exactly one u or U suffix, a  *)
(* vector literal as a constructor call; any other type is an error and    *)
(* writes nothing.                                                         *)
C19_LiteralSuffixesAsClaimed ==
    LiteralWritten =>
        /\ literal.dataType = "Float"
            => Contains(LiteralText, ".") /\ EndsInOne(LiteralText, {"f"})
        /\ literal.dataType = "UInt" => EndsInOne(LiteralText, {"u", "U"})
        /\ IsVectorType(literal.dataType)
            => LiteralText = ConstructorCall(literal.dataType, literal.value)
        /\ ~IsScalarType(literal.dataType) /\ ~IsVectorType(literal.dataType)
            => LiteralRejected

(* C19, amended: a Float literal is written as its value, then ".0" when   *)
(* the value has no '.', 'e' or 'E', then "f" (so it has a decimal point   *)
(* unless the value has an exponent and none, and one f suffix unless the  *)
(* value already ends in f); a non-empty UInt literal is written with a    *)
(* "u" appended unless it already ends in u or U, an empty one as nothing; *)
(* a vector literal as a constructor call; any other type is an error and  *)
(* writes nothing.                                                         *)
C19_LiteralText ==
    LiteralWritten =>
        /\ literal.dataType = "Float" =>
            /\ gpc = "returned"
            /\ EndsIn(LiteralText, {"f"})
            /\ LiteralText = IF HasPointOrExponent(literal.value)
                             THEN literal.value \o <<"f">>
                             ELSE literal.value \o <<".", "0", "f">>
            /\ Contains(LiteralText, ".") \/ Contains(literal.value, "e")
                                           \/ Contains(literal.value, "E")
            /\ ~EndsIn(literal.value, {"f"}) => EndsInOne(LiteralText, {"f"})
        /\ literal.dataType = "UInt" =>
            /\ gpc = "returned"
            /\ literal.value = <<>> => LiteralText = <<>>
            /\ literal.value # <<>> =>
                /\ EndsInOne(LiteralText, {"u", "U"})
                /\ LiteralText = IF EndsIn(literal.value, {"u", "U"})
                                 THEN literal.value
                                 ELSE literal.value \o <<"u">>
        /\ IsVectorType(literal.dataType) =>
            gpc = "returned" /\ LiteralText = ConstructorCall(literal.dataType, literal.value)
        /\ ~IsScalarType(literal.dataType) /\ ~IsVectorType(literal.dataType)
            => LiteralRejected

(* A Float literal with an exponent and no decimal point: 1e1 is written   *)
(* as 1e1f.                                                                *)
C19_Witness ==
    /\ LiteralWritten /\ gpc = "returned"
    /\ literal.value = <<"1", "e", "1">> /\ literal.dataType = "Float"
    /\ LiteralText = <<"1", "e", "1", "f">>


----------------------------------------------------------------------------
(* Vocabulary of the command line's properties *)

PerFileFields == {"outputFilename", "entryPoint"}
(* The argument begins with the name of the command. *)
Names(argument, cmd) ==
    Len(cmd.name) <= Len(argument) /\ SubSeq(argument, 1, Len(cmd.name)) = cmd.name
(* The text attached to the name of the command in the argument. *)
Attached(argument, cmd) == SubSeq(argument, Len(cmd.name) + 1, Len(argument))
(* The step runs the command with the value and goes on with the loop. *)
RunsWith(cmd, value) ==
    /\ epc' = "loop"
    /\ state_'[cmd.field] = IF cmd.field = "predefinedMacros"
                            THEN Append(state_.predefinedMacros, value)
                            ELSE value
    /\ \A f \in DOMAIN state_ \ {cmd.field} : state_'[f] = state_[f]
(* The step ends the command line with the exception. *)
RejectsWith(what) ==
    /\ epc' = "returned"
    /\ state_' = state_
    /\ output' = output \o <<"exception thrown: ", what>>
(* The step hands the argument to Shell::Compile as a file name. *)
CompilesAsFile(argument) ==
    epc' = "Compile" /\ spc' = "Compile" /\ env'.filename = argument /\ state_' = state_
(* The loop is about to accept an argument that begins with the name of    *)
(* the command.                                                            *)
AtFlag(cmd) == epc = "loop" /\ cmdLine # <<>> /\ Names(Head(cmdLine), cmd)
FailureLines == {"compilation failed", "validation failed", "exception",
                 "failed to read file", "failed to write file", "exception thrown: "}
(* A compilation failed or an exception was printed. *)
ErrorPrinted == \E i \in 1..Len(output) : output[i] \in FailureLines

(* C15: in ExecuteCommandLine no argument is read between the call of      *)
(* Compile and the reset that follows its return, whatever the outcome of  *)
(* the compilation; the reset empties outputFilename and entryPoint, marks *)
(* that an action was performed and leaves every other field of the shell  *)
(* state as it was.                                                        *)
C15_PerFileStateReset ==
    [][/\ cmdLine' # cmdLine => epc = "loop"
       /\ epc = "Compile" /\ spc = "Compile" => epc' = "Compile" /\ spc' = "returned"
       /\ epc = "Compile" /\ spc = "returned" =>
            /\ epc' = "loop"
            /\ \A f \in PerFileFields : state_'[f] = <<>>
            /\ state_'.actionPerformed
            /\ \A f \in DOMAIN state_ \ (PerFileFields \cup {"actionPerformed"}) :
                    state_'[f] = state_[f]]_vars

(* After `-E m a.h`: the file was compiled with the entry point m, which   *)
(* is empty again when the loop goes on.                                   *)
C15_Witness ==
    /\ epc = "loop"
    /\ files = {<<"a", ".", "m", ".", "g", "l", "s", "l">>}
    /\ state_.entryPoint = <<>> /\ state_.outputFilename = <<>>
    /\ state_.actionPerformed

(* C16, as claimed: every command is run with the value attached to its    *)
(* name or, when nothing is attached, with the following argument, and is  *)
(* not rejected while a following argument exists.                         *)
C16_AttachedOrNextAsClaimed ==
    [][\A cmd \in Commands :
        AtFlag(cmd) =>
            IF Attached(Head(cmdLine), cmd) # <<>>
            THEN RunsWith(cmd, Attached(Head(cmdLine), cmd))
            ELSE Len(cmdLine) >= 2 => RunsWith(cmd, cmdLine[2])]_vars

(* C16, amended: a command that includes its value is run with the text    *)
(* attached to its name and is rejected when nothing is attached, even     *)
(* when an argument follows; any other command is run with the following   *)
(* argument (rejected at the end of the command line), and an argument     *)
(* that attaches text to its name is compiled as an input file.            *)
C16_AttachedOrNext ==
    [][\A cmd \in Commands :
        AtFlag(cmd) =>
            IF cmd.includesValue
            THEN IF Attached(Head(cmdLine), cmd) # <<>>
                 THEN /\ RunsWith(cmd, Attached(Head(cmdLine), cmd))
                      /\ cmdLine' = Tail(cmdLine)
                 ELSE RejectsWith("missing value in command")
            ELSE IF Attached(Head(cmdLine), cmd) # <<>>
                 THEN CompilesAsFile(Head(cmdLine))
                 ELSE IF Len(cmdLine) >= 2
                      THEN /\ RunsWith(cmd, cmdLine[2])
                           /\ cmdLine' = Tail(Tail(cmdLine))
                      ELSE RejectsWith("unexpected end of arguments")]_vars

(* `-D m`: the define command is rejected although an argument follows. *)
C16_Witness ==
    /\ epc = "returned"
    /\ output = <<"exception thrown: ", "missing value in command">>
    /\ cmdLine = << <<"m">> >>
    /\ state_.predefinedMacros = <<>>

(* C17, as claimed: ExecuteCommandLine returns true only when no           *)
(* compilation failed and no exception was thrown.                         *)
C17_FailureSignalledAsClaimed ==
    epc = "returned" /\ ErrorPrinted => cmdResult = "false"


----------------------------------------------------------------------------
(* Vocabulary of C18 *)

(* The filename up to its last '.', the whole filename when it has none. *)
Stem(filename) ==
    IF \E i \in 1..Len(filename) : filename[i] = "."
    THEN LET last == CHOOSE i \in 1..Len(filename) :
                        /\ filename[i] = "."
                        /\ \A j \in (i + 1)..Len(filename) : filename[j] # "."
         IN  SubSeq(filename, 1, last - 1)
    ELSE filename
Extension ==
    [t \in ShaderTargets |->
        CASE t = "VertexShader" -> <<"v", "e", "r", "t">>
          [] t = "TessellationControlShader" -> <<"t", "e", "s", "c">>
          [] t = "TessellationEvaluationShader" -> <<"t", "e", "s", "e">>
          [] t = "GeometryShader" -> <<"g", "e", "o", "m">>
          [] t = "FragmentShader" -> <<"f", "r", "a", "g">>
          [] t = "ComputeShader" -> <<"c", "o", "m", "p">>
          [] t = "Undefined" -> <<"g", "l", "s", "l">>]
(* <input-stem>.<entry>.<ext> *)
DefaultName ==
    (((Stem(env.filename) \o <<".">>) \o state_.entryPoint) \o <<".">>)
        \o Extension[state_.shaderTarget]
(* The name the claim gives the output file. *)
ClaimedOutputName ==
    IF state_.outputFilename = <<>>
    THEN DefaultName
    ELSE Replace(state_.outputFilename, "*", DefaultName)
(* Shell::Compile was called on its own, has returned and wrote a file. *)
FileWritten(at) == spc = at /\ epc = "idle" /\ files # {}

(* C18, as claimed: the output file of Shell::Compile is named             *)
(* <input-stem>.<entry>.<ext> when no output filename is specified (also   *)
(* for the empty entry point and the undefined target), and otherwise the  *)
(* specified name with each '*' replaced by that default name.             *)
C18_DefaultOutputFilenameAsClaimed ==
    FileWritten("returned") \/ FileWritten("returned_000") => files = {ClaimedOutputName}

(* C18, amended: that holds of Shell::Compile of part_001 (which also      *)
(* keeps the name in lastOutputFilename_); Shell::Compile of part_000      *)
(* leaves an empty entry point out together with its dot, and uses a       *)
(* specified output filename as it is.                                     *)
C18_DefaultOutputFilename ==
    /\ FileWritten("returned") =>
            files = {ClaimedOutputName} /\ lastOutputFilename_ = ClaimedOutputName
    /\ FileWritten("returned_000") =>
            files = {IF state_.outputFilename # <<>> THEN state_.outputFilename
                     ELSE IF state_.entryPoint = <<>>
                     THEN (Stem(env.filename) \o <<".">>) \o Extension[state_.shaderTarget]
                     ELSE DefaultName}

(* Compile of part_001 with no output filename, the empty entry point and  *)
(* the undefined target: a.b.h is compiled to a.b..glsl.                   *)
C18_Witness ==
    /\ FileWritten("returned")
    /\ state_.outputFilename = <<>> /\ state_.entryPoint = <<>>
    /\ state_.shaderTarget = "Undefined"
    /\ env.filename = <<"a", ".", "b", ".", "h">>
    /\ files = {<<"a", ".", "b", ".", ".", "g", "l", "s", "l">>}


----------------------------------------------------------------------------
(* C21: Shell::Compile writes the output file only when CompileShader      *)
(* returned true and validateOnly is not set; after Compile                *)
(* lastOutputFilename_ is empty, whatever it held before, unless that      *)
(* compilation succeeded, was not validate-only and the file was opened    *)
(* and written, and then it is the name of the file written.               *)
C21_OutputFileAndLastOutputFilename ==
    [][/\ spc = "Compile" =>
            LET written == /\ env.readable /\ env.compiled = "true"
                           /\ ~state_.validateOnly /\ env.writable
            IN  /\ files' = IF written THEN files \cup {ClaimedOutputName} ELSE files
                /\ lastOutputFilename_' = IF written THEN ClaimedOutputName ELSE <<>>
                /\ lastOutputFilename_' # <<>> => lastOutputFilename_' \in files'
       /\ spc = "Compile_000" =>
            /\ files' # files => env.compiled = "true"
            /\ files' \subseteq files \cup {OutputFilename_000(env.filename)}
       /\ spc \notin {"Compile", "Compile_000"} =>
            files' = files /\ lastOutputFilename_' = lastOutputFilename_]_vars

(* A successful compilation that is not validate-only: the file a.m.vert   *)
(* was written and its name is kept.                                       *)
C21_Witness ==
    /\ spc = "returned" /\ epc = "idle"
    /\ env.readable /\ env.compiled = "true" /\ env.writable /\ ~state_.validateOnly
    /\ lastOutputFilename_ = <<"a", ".", "m", ".", "v", "e", "r", "t">>
    /\ files = {lastOutputFilename_}


----------------------------------------------------------------------------
(* Vocabulary of the calls of single procedures *)

ProcCalled(proc) == procCall.proc = proc /\ procCall.called

(* C22: VisitFunctionDecl raises the error for a function with a           *)
(* non-return control path if and only if the function is flagged          *)
(* reachable; for an unreachable function it raises no error, writes no    *)
(* text, and warns exactly when the Basic warnings are enabled and the     *)
(* function has a non-return control path.                                 *)
C22_InvalidControlPath ==
    ProcCalled("VisitFunctionDecl") =>
        LET ast == procCall.args
            hasNonReturnControlPath == ast.detail = "hasNonReturnControlPath"
        IN  /\ procCall.error # "none" <=> hasNonReturnControlPath /\ ast.declReachable
            /\ procCall.error \in {"none", "R_InvalidControlPathInFunc"}
            /\ ~ast.declReachable =>
                /\ procCall.error = "none"
                /\ procCall.text = <<>>
                /\ procCall.warning # "none" <=>
                        "Basic" \in genDesc.warnings /\ hasNonReturnControlPath
            /\ ast.declReachable => procCall.warning = "none"
            /\ gpc = IF procCall.error = "none" THEN "returned" ELSE "thrown"

(* An unreachable function with a non-return control path, visited with    *)
(* the Basic warnings enabled: a warning, no error and no text.            *)
C22_Witness ==
    /\ ProcCalled("VisitFunctionDecl")
    /\ ~procCall.args.declReachable
    /\ procCall.args.detail = "hasNonReturnControlPath"
    /\ genDesc.warnings = {"Basic"}
    /\ procCall.warning = "R_InvalidControlPathInUnrefFunc"
    /\ procCall.error = "none" /\ procCall.text = <<>>


----------------------------------------------------------------------------
(* GenerateCodePrimary has been called (and no single procedure instead). *)
GeneratorCalled ==
    gpc \notin {"idle", "WriteLiteral"} /\ procCall.proc = "none" /\ ~literal.called
(* Visit(&program) has been reached. *)
ProgramVisited == gpc = "Visit" \/ (\E k \in 1..Len(genEvents) : genEvents[k] = "Visit")

(* C23: without a resolved entry point GenerateCodePrimary raises the      *)
(* entry-point-not-found error, runs no transformer and writes nothing;    *)
(* with an entry point, whenever the program is visited the three          *)
(* transformers have run and the header has been written before.           *)
C23_EntryPoint ==
    /\ GeneratorCalled /\ program.entryPointRef = 0 /\ gpc # "GenerateCodePrimary" =>
            /\ gpc = "thrown"
            /\ genErrors = <<"R_EntryPointNotFound">>
            /\ genEvents = <<>>
            /\ genOut = <<>>
    /\ GeneratorCalled /\ program.entryPointRef # 0 =>
            /\ \A i \in 1..Len(genErrors) : genErrors[i] # "R_EntryPointNotFound"
            /\ ProgramVisited =>
                /\ IsPrefix(<<"StructParameterAnalyzer", "FuncNameConverter",
                              "ReferenceAnalyzer", "WriteComment", "WriteComment",
                              "WriteComment", "Blank">>, genEvents)
                /\ Len(genOut) >= 4
                /\ \A l \in 1..3 : genOut[l][1] = "// "
                /\ genOut[4] = <<>>

(* A program with two declarations and no entry point: the error is        *)
(* raised and nothing else has happened.                                   *)
C23_Witness ==
    /\ GeneratorCalled /\ gpc = "thrown"
    /\ program.entryPointRef = 0 /\ Len(program.globalStmnts) = 2
    /\ genErrors = <<"R_EntryPointNotFound">>
    /\ genEvents = <<>> /\ genOut = <<>>


----------------------------------------------------------------------------
(* The pre-processor has run, with the result. *)
PreProcessed(ok) == \E i \in 1..Len(trace) : trace[i] = Stage("PreProcessor", ok)

(* C24, as claimed: reflectionData->macros is assigned only after          *)
(* pre-processing succeeded and is left unchanged when it fails.           *)
C24_MacrosOnlyOnSuccessAsClaimed ==
    reflectionData.macros # "unset" => PreProcessed(TRUE)

(* C24, amended: when reflection data is requested its macro list is       *)
(* assigned as soon as Process has returned, whether pre-processing        *)
(* succeeded or failed, and at no other point; without the request         *)
(* nothing is assigned.                                                    *)
C24_MacrosListedAfterProcess ==
    /\ reflectionData.macros \in {"unset", "listed"}
    /\ reflectionData.macros = "listed" <=>
            reflectionData.present /\ (PreProcessed(TRUE) \/ PreProcessed(FALSE))

(* A failed pre-processing run with reflection data requested: false is    *)
(* returned and the macro list has been assigned.                          *)
C24_Witness ==
    /\ pc = "returned" /\ result = "false"
    /\ trace = <<Stage("PreProcessor", FALSE)>>
    /\ reflectionData.present /\ reflectionData.macros = "listed"


----------------------------------------------------------------------------
(* C25: no exception leaves ExecuteCommandLine.  When a command throws,    *)
(* the exception is printed, the call returns true at once and the         *)
(* arguments that remain are never processed; Compile always returns to    *)
(* the loop, whatever the outcome of the compilation, and the loop goes on *)
(* with the arguments that follow.                                         *)
C25_ExceptionsAreCaught ==
    /\ [](epc \in {"idle", "ExecuteCommandLine", "loop", "Compile", "returned"})
    /\ [](epc = "returned" => cmdResult \in {"true", "false"})
    /\ [][/\ epc = "loop" /\ cmdLine # <<>> /\ epc' = "returned" =>
                /\ \E what \in {"missing value in command", "unexpected end of arguments"} :
                        output' = output \o <<"exception thrown: ", what>>
                /\ cmdResult' = "true"
                /\ UNCHANGED <<state_, files, spc, lastOutputFilename_>>
          /\ epc = "returned" => UNCHANGED shellVars
          /\ epc = "Compile" /\ spc = "Compile" =>
                epc' = "Compile" /\ spc' = "returned" /\ cmdLine' = cmdLine
          /\ epc = "Compile" /\ spc = "returned" =>
                epc' = "loop" /\ cmdLine' = cmdLine /\ output' = output]_vars

(* `a.h -D m`: the compilation of a.h failed, the loop went on to the      *)
(* define command, whose exception was printed; m was never processed and  *)
(* the call returned true.                                                 *)
C25_Witness ==
    /\ epc = "returned" /\ cmdResult = "true"
    /\ output = <<"compilation failed", "exception thrown: ", "missing value in command">>
    /\ cmdLine = << <<"m">> >>
    /\ files = {}


----------------------------------------------------------------------------
----------------------------------------------------------------------------
(* ---- Shell::PushState / Shell::PopState ------------------------------- *)

(* The number of states saved and not yet restored after the first i calls. *)
RECURSIVE Depth(_)
Depth(i) ==
    IF i = 0 THEN 0
    ELSE IF calls[i].call = "PushState" THEN Depth(i - 1) + 1
    ELSE IF calls[i].call = "PopState" THEN Depth(i - 1) - 1
    ELSE Depth(i - 1)

(* The calls are balanced so far: no PopState met an empty stack.          *)
Balanced == \A i \in DOMAIN calls : calls[i].call # "PopState on empty stack"

(* The PushState call that the PopState call number k matches: the last    *)
(* one before it that is not matched by an earlier PopState.               *)
Matching(k) ==
    CHOOSE j \in 1..(k - 1) :
        /\ calls[j].call = "PushState"
        /\ Depth(j - 1) = Depth(k)
        /\ \A m \in j..(k - 1) : Depth(m) > Depth(k)

CallNames == [i \in DOMAIN calls |-> calls[i].call]

(* C27: in a balanced sequence of PushState and PopState calls with        *)
(* state-changing commands between them, every PopState leaves state_ at   *)
(* the value it had at the matching PushState, the stack holds exactly the *)
(* states not yet restored, and no PopState runs on an empty stack.        *)
C27_PopRestoresPushedState ==
    (opc = "state stack" /\ Balanced) =>
        /\ Len(stateStack_) = Depth(Len(calls))
        /\ \A k \in DOMAIN calls :
              calls[k].call = "PopState" =>
                  /\ Depth(k - 1) >= 1
                  /\ \E j \in 1..(k - 1) : j = Matching(k) /\ calls[j].call = "PushState"
                  /\ calls[k].state = calls[Matching(k)].state

(* Two nested pairs with a command between the two PushState calls: the    *)
(* first PopState restores the inner state, the second the outer one.      *)
C27_Witness ==
    /\ opc = "state stack"
    /\ CallNames = <<"PushState", "Run", "PushState", "PopState", "PopState">>
    /\ calls[4].state = calls[3].state
    /\ calls[4].state # calls[1].state
    /\ state_ = calls[1].state
    /\ stateStack_ = <<>>

----------------------------------------------------------------------------
(* ---- Shell::Instance ---------------------------------------------------- *)

(* C28: as claimed, Shell::Instance() is null only when no Shell is alive  *)
(* and never refers to a destroyed Shell, for every order of constructions *)
(* and destructions.  The code does not do this: every destructor clears   *)
(* instance_, also while another Shell is alive.                           *)
C28_InstanceIsLiveAsClaimed ==
    opc = "instances" =>
        /\ Instance = "nullptr" => shells = {}
        /\ Instance # "nullptr" => Instance \in shells

(* The part of C28 the code keeps: Instance() never refers to a destroyed  *)
(* Shell.                                                                  *)
C28_InstanceNeverDangles ==
    opc = "instances" => (Instance # "nullptr" => Instance \in shells)

----------------------------------------------------------------------------
(* ---- HLSLGenerator::WriteComment ---------------------------------------- *)

(* The number of newline characters of a text.                             *)
Newlines(text) == Cardinality({i \in DOMAIN text : text[i] = "\n"})

(* The newline-separated lines of a text, a newline at the end of the text *)
(* ending the last line instead of starting an empty one.                  *)
RECURSIVE SeparatedLines(_)
SeparatedLines(text) ==
    IF text = <<>> THEN <<>>
    ELSE LET end == Find(text, "\n", 0)
         IN  IF end = npos THEN <<text>>
             ELSE <<SubSeq(text, 1, end)>> \o SeparatedLines(SubSeq(text, end + 2, Len(text)))

WriteCommentReturned == ProcCalled("WriteComment") /\ gpc = "returned"

(* C29: as claimed, WriteComment writes one '// ' line per newline-        *)
(* separated line of the text and no extra empty comment line for a text   *)
(* that ends in a newline.  The code writes that extra line.               *)
C29_CommentLinesAsClaimed ==
    WriteCommentReturned =>
        procCall.text =
            [k \in DOMAIN SeparatedLines(procCall.args.text) |->
                <<"// ">> \o SeparatedLines(procCall.args.text)[k]]

(* What the code does: nothing for the empty text, and k + 1 lines for     *)
(* every other text with k newline characters, so a text that ends in a    *)
(* newline gets an empty comment line at the end; each test of the loop    *)
(* condition moves on in the text until the call returns.                  *)
C29_CommentLinesWritten ==
    /\ [](WriteCommentReturned =>
            /\ Len(procCall.text) =
                  IF procCall.args.text = <<>> THEN 0
                  ELSE Newlines(procCall.args.text) + 1
            /\ (procCall.args.text # <<>>
                 /\ procCall.args.text[Len(procCall.args.text)] = "\n")
                    => procCall.text[Len(procCall.text)] = <<"// ">>)
    /\ [][gpc = "WriteComment" =>
            \/ gpc' = "returned"
            \/ Len(procCall'.text) = Len(procCall.text) + 1
                /\ Len(procCall'.text) <= Len(procCall.args.text) + 1]_vars

----------------------------------------------------------------------------
(* ---- HLSLGenerator::WriteCallExprArguments ------------------------------ *)

(* The argument with index i of a call: explicit below n, default from n.  *)
ArgumentAt(callExpr, i) ==
    IF i < Len(callExpr.arguments)
    THEN callExpr.arguments[i + 1]
    ELSE callExpr.defaultArgumentRefs[i - Len(callExpr.arguments) + 1]

(* The end of the range of written indices: min(firstArgIndex +            *)
(* numWriteArgs, n + d), the sum taken without wrapping.                   *)
LastArgumentBound(callExpr, firstArgIndex, numWriteArgs) ==
    Min(firstArgIndex + numWriteArgs,
        Len(callExpr.arguments) + Len(callExpr.defaultArgumentRefs))

(* The arguments with index in [first, last), with ", " between them.      *)
ArgumentList(callExpr, first, last) ==
    IF last <= first THEN <<>>
    ELSE [k \in 1..(2 * (last - first) - 1) |->
            IF k % 2 = 1 THEN ArgumentAt(callExpr, first + (k - 1) \div 2) ELSE ", "]

(* C30: WriteCallExprArguments writes exactly the arguments with index in  *)
(* [firstArgIndex, min(firstArgIndex + numWriteArgs, n + d)), the sum not  *)
(* wrapping, explicit arguments first and default arguments after them,    *)
(* with ", " between consecutive arguments and none after the last.        *)
C30_ArgumentsWritten ==
    (ProcCalled("WriteCallExprArguments") /\ gpc = "returned") =>
        procCall.text =
            ArgumentList(procCall.args.callExpr, procCall.args.firstArgIndex,
                         LastArgumentBound(procCall.args.callExpr,
                                           procCall.args.firstArgIndex,
                                           procCall.args.numWriteArgs))

(* The all-ones numWriteArgs with firstArgIndex = 1, where the sum wraps:  *)
(* the last explicit argument and the default argument are written.        *)
C30_Witness ==
    /\ ProcCalled("WriteCallExprArguments") /\ gpc = "returned"
    /\ procCall.args.numWriteArgs = SizeMax
    /\ procCall.args.firstArgIndex = 1
    /\ procCall.args.callExpr = [arguments |-> <<"a0", "a1">>,
                                 defaultArgumentRefs |-> <<"d0">>]
    /\ procCall.text = <<"a1", ", ", "d0">>
====
